---------------------------- MODULE Spec2Model ----------------------------
(***************************************************************************)
(* A model of the quectel-5g-tools decoding core: the channel-number to    *)
(* frequency conversion (quectel/frequency.py, current and legacy), the    *)
(* signal classifier (quectel/thresholds.py and the monitor script's       *)
(* beep_sequence) and the AT-response decoders (quectel/parser.py).        *)
(*                                                                         *)
(* The library is a set of pure functions.  Each is an operator computed   *)
(* as the code computes it, and each public function is an action that     *)
(* applies it to an input drawn from a bounded set and records the call:   *)
(*   op   the function that was called last,                               *)
(*   arg  the argument it was called with,                                 *)
(*   ret  what it returned (or the exception that escaped it).            *)
(*                                                                         *)
(* Representation.                                                         *)
(*   - Text is a TLA+ string, handled character by character.              *)
(*   - Optional[T]: None, or Some(v).                                      *)
(*   - A float is held exactly as an integer number of thousandths         *)
(*     (7 -> 7000, 18.5 -> 18500); frequencies are held in kHz             *)
(*     (1820.0 MHz -> 1820000).                                            *)
(*   - A call that raises returns Raise(exc).                              *)
(***************************************************************************)
EXTENDS Integers, Sequences, FiniteSets, TLC

\* A call of one of the library's functions: its name, argument and result.
VARIABLES op, arg, ret

\* 5g-monitor.py, main(): the position in the poll loop, the number of the
\* poll cycle, the locals cache, beeps, pci/rsrp/rsrq/sinr/state, the
\* +QCAINFO lines still to process and the number of the one in hand, the
\* row printed last, the beeps played last and the exception that ended
\* the program.
VARIABLES pc, cycle, cache, beeps, loc, pending, lineno, shown, played, fault

\* One call of SerialBackend.send_command: its position, the port's input
\* buffer, the lines collected, the time and the deadline, the value
\* returned, every line the modem sent with the moment it arrived, and the
\* number of lines read from the buffer.
VARIABLES spc, inbuf, response_lines, clock, end_time, reply, arrived, nread

\* One call of auto_detect_port: its position, the number of candidates, the
\* candidate probed, the ports open, the candidate whose backend the local
\* refers to, the response, the value returned, and the candidates whose
\* command raised with the port open.
VARIABLES ppc, ncand, device, ports, backend, probed, found, failed

callVars == <<op, arg, ret>>

monitorVars == <<pc, cycle, cache, beeps, loc, pending, lineno, shown, played, fault>>

serialVars == <<spc, inbuf, response_lines, clock, end_time, reply, arrived, nread>>

probeVars == <<ppc, ncand, device, ports, backend, probed, found, failed>>

programVars == <<monitorVars, serialVars, probeVars>>

vars == <<callVars, programVars>>

-----------------------------------------------------------------------------
(* Optional values and exceptions                                          *)

None == [none |-> TRUE]

Some(v) == [some |-> v]

IsNone(x) == "none" \in DOMAIN x

IsSome(x) == "some" \in DOMAIN x

Raise(exc) == [raise |-> exc]

IsRaise(x) == "raise" \in DOMAIN x

\* Python's `x or d` for an Optional number: d when x is None or x is 0.
OrElse(x, d) == IF IsNone(x) \/ x.some = 0 THEN d ELSE x.some

\* An integer literal of the source as a float (thousandths).
Flt(n) == n * 1000

-----------------------------------------------------------------------------
(* Python's str and number parsing, character by character                 *)

Ch(s, i) == SubSeq(s, i, i)

\* s[k:]
From(s, k) == IF k >= Len(s) THEN "" ELSE SubSeq(s, k + 1, Len(s))

\* The characters str.strip() removes (those the inputs can hold).
Whitespace == {" ", "\t", "\n", "\r", "\f"}

\* The line boundaries of str.splitlines() (those the inputs can hold).
LineBreaks == {"\n", "\r", "\f"}

RECURSIVE LStripSet(_, _)
LStripSet(s, cs) ==
  IF Len(s) > 0 /\ Ch(s, 1) \in cs THEN LStripSet(From(s, 1), cs) ELSE s

RECURSIVE RStripSet(_, _)
RStripSet(s, cs) ==
  IF Len(s) > 0 /\ Ch(s, Len(s)) \in cs
  THEN RStripSet(SubSeq(s, 1, Len(s) - 1), cs)
  ELSE s

\* s.strip()
Strip(s) == RStripSet(LStripSet(s, Whitespace), Whitespace)

\* s.strip('"'): every leading and trailing double quote goes.
StripQuotes(s) == RStripSet(LStripSet(s, {"\""}), {"\""})

\* s.startswith(p)
StartsWith(s, p) == Len(s) >= Len(p) /\ SubSeq(s, 1, Len(p)) = p

\* s.find(sub): the 0-based index of the first occurrence from index k on,
\* -1 when there is none.
RECURSIVE FindFrom(_, _, _)
FindFrom(s, sub, k) ==
  IF k + Len(sub) > Len(s) THEN -1
  ELSE IF SubSeq(s, k + 1, k + Len(sub)) = sub THEN k
  ELSE FindFrom(s, sub, k + 1)

\* sub in s
Contains(s, sub) == FindFrom(s, sub, 0) >= 0

\* s.replace(old, new), old not empty: every occurrence, left to right.
RECURSIVE Replace(_, _, _)
Replace(s, old, new) ==
  LET k == FindFrom(s, old, 0)
  IN  IF k < 0 THEN s
      ELSE SubSeq(s, 1, k) \o new \o Replace(From(s, k + Len(old)), old, new)

\* s.split(sep) for a one-character sep: always at least one piece.
RECURSIVE Split(_, _)
Split(s, sep) ==
  LET k == FindFrom(s, sep, 0)
  IN  IF k < 0 THEN <<s>>
      ELSE <<SubSeq(s, 1, k)>> \o Split(From(s, k + 1), sep)

\* The index (0-based) of the first line break of s, -1 when there is none.
RECURSIVE FindBreak(_, _)
FindBreak(s, k) ==
  IF k >= Len(s) THEN -1
  ELSE IF Ch(s, k + 1) \in LineBreaks THEN k
  ELSE FindBreak(s, k + 1)

\* s.splitlines(): "\r\n" is one boundary, and a final boundary opens no
\* empty last line.
RECURSIVE SplitLines(_)
SplitLines(s) ==
  IF s = "" THEN <<>>
  ELSE LET k == FindBreak(s, 0)
       IN  IF k < 0 THEN <<s>>
           ELSE LET w == IF Ch(s, k + 1) = "\r" /\ k + 1 < Len(s) /\ Ch(s, k + 2) = "\n"
                         THEN 2 ELSE 1
                IN  <<SubSeq(s, 1, k)>> \o SplitLines(From(s, k + w))

\* s.split(): the pieces between runs of whitespace, none of them empty.
RECURSIVE FindSpace(_, _)
FindSpace(s, k) ==
  IF k >= Len(s) THEN -1
  ELSE IF Ch(s, k + 1) \in Whitespace THEN k
  ELSE FindSpace(s, k + 1)

RECURSIVE SplitWs(_)
SplitWs(s) ==
  LET r == LStripSet(s, Whitespace)
  IN  IF r = "" THEN <<>>
      ELSE LET k == FindSpace(r, 0)
           IN  IF k < 0 THEN <<r>>
               ELSE <<SubSeq(r, 1, k)>> \o SplitWs(From(r, k))

DigitValue ==
  [ c \in {"0", "1", "2", "3", "4", "5", "6", "7", "8", "9",
           "a", "b", "c", "d", "e", "f", "A", "B", "C", "D", "E", "F"} |->
      CASE c = "0" -> 0 [] c = "1" -> 1 [] c = "2" -> 2 [] c = "3" -> 3
        [] c = "4" -> 4 [] c = "5" -> 5 [] c = "6" -> 6 [] c = "7" -> 7
        [] c = "8" -> 8 [] c = "9" -> 9
        [] c \in {"a", "A"} -> 10 [] c \in {"b", "B"} -> 11
        [] c \in {"c", "C"} -> 12 [] c \in {"d", "D"} -> 13
        [] c \in {"e", "E"} -> 14 [] c \in {"f", "F"} -> 15 ]

DecDigits == {"0", "1", "2", "3", "4", "5", "6", "7", "8", "9"}

HexDigits == DOMAIN DigitValue

\* A digit string of a Python number literal: digits of the base, with
\* single underscores allowed between digits.
RECURSIVE IsDigitRun(_, _, _)
IsDigitRun(s, digits, afterDigit) ==
  IF s = "" THEN afterDigit
  ELSE IF Ch(s, 1) \in digits THEN IsDigitRun(From(s, 1), digits, TRUE)
  ELSE IF Ch(s, 1) = "_" /\ afterDigit /\ Len(s) > 1 /\ Ch(s, 2) \in digits
       THEN IsDigitRun(From(s, 1), digits, FALSE)
  ELSE FALSE

RECURSIVE DigitRunValue(_, _, _)
DigitRunValue(s, base, acc) ==
  IF s = "" THEN acc
  ELSE IF Ch(s, 1) = "_" THEN DigitRunValue(From(s, 1), base, acc)
  ELSE DigitRunValue(From(s, 1), base, acc * base + DigitValue[Ch(s, 1)])

Sign(s) == IF Len(s) > 0 /\ Ch(s, 1) = "-" THEN -1 ELSE 1

Unsigned(s) == IF Len(s) > 0 /\ Ch(s, 1) \in {"-", "+"} THEN From(s, 1) ELSE s

\* int(s): Some(n), or None where Python raises ValueError.
PyInt(s) ==
  LET b == Unsigned(Strip(s))
  IN  IF IsDigitRun(b, DecDigits, FALSE)
      THEN Some(Sign(Strip(s)) * DigitRunValue(b, 10, 0))
      ELSE None

\* int(s, 16): as int(s), with hexadecimal digits and an optional 0x.
PyIntHex(s) ==
  LET u == Unsigned(Strip(s))
      b == IF Len(u) >= 2 /\ SubSeq(u, 1, 2) \in {"0x", "0X"} THEN From(u, 2) ELSE u
  IN  IF IsDigitRun(b, HexDigits, FALSE)
      THEN Some(Sign(Strip(s)) * DigitRunValue(b, 16, 0))
      ELSE None

\* The digits after the point, as thousandths (the inputs hold at most three).
FracThousandths(f) ==
  LET n == DigitRunValue(f, 10, 0)
  IN  CASE Len(f) = 0 -> 0
        [] Len(f) = 1 -> n * 100
        [] Len(f) = 2 -> n * 10
        [] OTHER -> DigitRunValue(SubSeq(f, 1, 3), 10, 0)

\* float(s) for the decimal spellings (digits, an optional point; the inputs
\* hold no exponent, inf or nan): Some(thousandths), or None where Python
\* raises ValueError.
PyFloat(s) ==
  LET b == Unsigned(Strip(s))
      k == FindFrom(b, ".", 0)
      ip == IF k < 0 THEN b ELSE SubSeq(b, 1, k)
      fp == IF k < 0 THEN "" ELSE From(b, k + 1)
      okInt == ip = "" \/ IsDigitRun(ip, DecDigits, FALSE)
      okFrac == fp = "" \/ IsDigitRun(fp, DecDigits, FALSE)
  IN  IF okInt /\ okFrac /\ (ip # "" \/ fp # "")
      THEN Some(Sign(Strip(s)) * (DigitRunValue(ip, 10, 0) * 1000 + FracThousandths(fp)))
      ELSE None

-----------------------------------------------------------------------------
(* quectel/frequency.py: band tables                                       *)

\* (band, earfcn_start, earfcn_end, freq_low in kHz, offset)
LTE_BANDS ==
  << <<1, 0, 599, 2110000, 0>>,
     <<3, 1200, 1949, 1805000, 1200>>,
     <<7, 2750, 3449, 2620000, 2750>>,
     <<20, 6150, 6449, 791000, 6150>>,
     <<28, 9210, 9659, 758000, 9210>>,
     <<32, 9920, 10359, 1452000, 9920>>,
     <<38, 37750, 38249, 2570000, 37750>>,
     <<40, 38650, 39649, 2300000, 38650>> >>

\* (band, arfcn_start, arfcn_end, global_freq_offset_khz, channel_raster_khz)
NR5G_BANDS ==
  << <<78, 620000, 653333, 3000000, 15>> >>

\* legacy/python frequency.py: the full 3GPP LTE table, same row format.
LEGACY_LTE_BANDS ==
  << <<1, 0, 599, 2110000, 0>>,
     <<2, 600, 1199, 1930000, 600>>,
     <<3, 1200, 1949, 1805000, 1200>>,
     <<4, 1950, 2399, 2110000, 1950>>,
     <<5, 2400, 2649, 869000, 2400>>,
     <<6, 2650, 2749, 875000, 2650>>,
     <<7, 2750, 3449, 2620000, 2750>>,
     <<8, 3450, 3799, 925000, 3450>>,
     <<9, 3800, 4149, 1844900, 3800>>,
     <<10, 4150, 4749, 2110000, 4150>>,
     <<11, 4750, 4949, 1475900, 4750>>,
     <<12, 5010, 5179, 729000, 5010>>,
     <<13, 5180, 5279, 746000, 5180>>,
     <<14, 5280, 5379, 758000, 5280>>,
     <<17, 5730, 5849, 734000, 5730>>,
     <<18, 5850, 5999, 860000, 5850>>,
     <<19, 6000, 6149, 875000, 6000>>,
     <<20, 6150, 6449, 791000, 6150>>,
     <<21, 6450, 6599, 1495900, 6450>>,
     <<22, 6600, 7399, 3510000, 6600>>,
     <<23, 7500, 7699, 2180000, 7500>>,
     <<24, 7700, 8039, 1525000, 7700>>,
     <<25, 8040, 8689, 1930000, 8040>>,
     <<26, 8690, 9039, 859000, 8690>>,
     <<27, 9040, 9209, 852000, 9040>>,
     <<28, 9210, 9659, 758000, 9210>>,
     <<29, 9660, 9769, 717000, 9660>>,
     <<30, 9770, 9869, 2350000, 9770>>,
     <<31, 9870, 9919, 462500, 9870>>,
     <<32, 9920, 10359, 1452000, 9920>>,
     <<33, 36000, 36199, 1900000, 36000>>,
     <<34, 36200, 36349, 2010000, 36200>>,
     <<35, 36350, 36949, 1850000, 36350>>,
     <<36, 36950, 37549, 1930000, 36950>>,
     <<37, 37550, 37749, 1910000, 37550>>,
     <<38, 37750, 38249, 2570000, 37750>>,
     <<39, 38250, 38649, 1880000, 38250>>,
     <<40, 38650, 39649, 2300000, 38650>>,
     <<41, 39650, 41589, 2496000, 39650>>,
     <<42, 41590, 43589, 3400000, 41590>>,
     <<43, 43590, 45589, 3600000, 43590>>,
     <<44, 45590, 46589, 703000, 45590>>,
     <<45, 46590, 46789, 1447000, 46590>>,
     <<46, 46790, 54539, 5150000, 46790>>,
     <<47, 54540, 55239, 5855000, 54540>>,
     <<48, 55240, 56739, 3550000, 55240>>,
     <<49, 56740, 58239, 3550000, 56740>>,
     <<50, 58240, 59089, 1432000, 58240>>,
     <<51, 59090, 59139, 1427000, 59090>>,
     <<52, 59140, 60139, 3300000, 59140>>,
     <<53, 60140, 60254, 2483500, 60140>>,
     <<65, 65536, 66435, 2110000, 65536>>,
     <<66, 66436, 67335, 2110000, 66436>>,
     <<67, 67336, 67535, 738000, 67336>>,
     <<68, 67536, 67835, 753000, 67536>>,
     <<69, 67836, 68335, 2570000, 67836>>,
     <<70, 68336, 68585, 1995000, 68336>>,
     <<71, 68586, 68935, 617000, 68586>>,
     <<72, 68936, 68985, 461000, 68936>>,
     <<73, 68986, 69035, 460000, 68986>>,
     <<74, 69036, 69465, 1475000, 69036>>,
     <<75, 69466, 70315, 1432000, 69466>>,
     <<76, 70316, 70365, 1427000, 70316>>,
     <<85, 70366, 70545, 728000, 70366>>,
     <<87, 70546, 70595, 420000, 70546>>,
     <<88, 70596, 70645, 422000, 70596>> >>

\* legacy/python frequency.py: (band, arfcn_low, arfcn_high, is_fr2), in the
\* order of the source.
LEGACY_NR5G_BANDS ==
  << <<71, 123400, 130400, FALSE>>,
     <<12, 139800, 143200, FALSE>>,
     <<83, 140600, 149600, FALSE>>,
     <<29, 141600, 143600, FALSE>>,
     <<85, 145600, 147600, FALSE>>,
     <<28, 145800, 154600, FALSE>>,
     <<67, 147600, 151600, FALSE>>,
     <<13, 149200, 151200, FALSE>>,
     <<14, 151600, 153600, FALSE>>,
     <<20, 151600, 160600, FALSE>>,
     <<26, 162800, 169800, FALSE>>,
     <<18, 163000, 166000, FALSE>>,
     <<5, 164800, 169800, FALSE>>,
     <<89, 164800, 169800, FALSE>>,
     <<82, 166400, 172400, FALSE>>,
     <<91, 166400, 172400, FALSE>>,
     <<92, 166400, 172400, FALSE>>,
     <<8, 176000, 183000, FALSE>>,
     <<81, 176000, 183000, FALSE>>,
     <<100, 183880, 185000, FALSE>>,
     <<51, 285400, 286400, FALSE>>,
     <<76, 285400, 286400, FALSE>>,
     <<93, 285400, 286400, FALSE>>,
     <<50, 286400, 303400, FALSE>>,
     <<75, 286400, 303400, FALSE>>,
     <<94, 286400, 303400, FALSE>>,
     <<74, 295000, 303600, FALSE>>,
     <<99, 325300, 332100, FALSE>>,
     <<86, 342000, 356000, FALSE>>,
     <<3, 342000, 357000, FALSE>>,
     <<80, 342000, 357000, FALSE>>,
     <<2, 370000, 382000, FALSE>>,
     <<25, 370000, 383000, FALSE>>,
     <<39, 376000, 384000, FALSE>>,
     <<98, 376000, 384000, FALSE>>,
     <<101, 380000, 382000, FALSE>>,
     <<1, 384000, 396000, FALSE>>,
     <<84, 384000, 396000, FALSE>>,
     <<65, 384000, 399000, FALSE>>,
     <<70, 399000, 404000, FALSE>>,
     <<34, 402000, 405000, FALSE>>,
     <<95, 402000, 405000, FALSE>>,
     <<66, 422000, 440000, FALSE>>,
     <<40, 460000, 480000, FALSE>>,
     <<30, 461000, 463000, FALSE>>,
     <<53, 496700, 499000, FALSE>>,
     <<41, 499200, 537999, FALSE>>,
     <<90, 499200, 538000, FALSE>>,
     <<7, 500000, 514000, FALSE>>,
     <<38, 514000, 524000, FALSE>>,
     <<78, 620000, 653333, FALSE>>,
     <<77, 620000, 680000, FALSE>>,
     <<97, 620000, 680000, FALSE>>,
     <<48, 636667, 646666, FALSE>>,
     <<79, 693334, 733333, FALSE>>,
     <<46, 743334, 795000, FALSE>>,
     <<47, 790334, 795000, FALSE>>,
     <<102, 795000, 828333, FALSE>>,
     <<96, 795000, 875000, FALSE>>,
     <<104, 828334, 875000, FALSE>>,
     <<258, 2016667, 2070832, TRUE>>,
     <<257, 2054166, 2104165, TRUE>>,
     <<261, 2070833, 2084999, TRUE>>,
     <<260, 2229166, 2279165, TRUE>>,
     <<259, 2270833, 2337499, TRUE>>,
     <<262, 2399166, 2415832, TRUE>>,
     <<263, 2564083, 2794249, TRUE>> >>

-----------------------------------------------------------------------------
(* quectel/frequency.py: conversions                                       *)

\* The `for row in table: if start <= n <= end: return ...` scan: the index
\* of the first row whose range holds n, 0 when the loop falls through.
RECURSIVE FirstMatch(_, _, _)
FirstMatch(table, n, i) ==
  IF i > Len(table) THEN 0
  ELSE IF table[i][2] <= n /\ n <= table[i][3] THEN i
  ELSE FirstMatch(table, n, i + 1)

\* A scan that keeps the last row whose range holds n.
RECURSIVE LastMatch(_, _, _)
LastMatch(table, n, i) ==
  IF i < 1 THEN 0
  ELSE IF table[i][2] <= n /\ n <= table[i][3] THEN i
  ELSE LastMatch(table, n, i - 1)

\* A scan whose range test excludes the end of the range.
RECURSIVE FirstMatchOpenEnd(_, _, _)
FirstMatchOpenEnd(table, n, i) ==
  IF i > Len(table) THEN 0
  ELSE IF table[i][2] <= n /\ n < table[i][3] THEN i
  ELSE FirstMatchOpenEnd(table, n, i + 1)

LteResult(table, i, earfcn) ==
  IF i = 0 THEN <<None, None>>
  ELSE <<Some(table[i][4] + 100 * (earfcn - table[i][5])), Some(table[i][1])>>

earfcn_to_mhz_open_end(earfcn) ==
  LteResult(LTE_BANDS, FirstMatchOpenEnd(LTE_BANDS, earfcn, 1), earfcn)

\* freq = freq_low + 0.1 * (earfcn - offset), in kHz.
earfcn_to_mhz(earfcn) ==
  LteResult(LTE_BANDS, FirstMatch(LTE_BANDS, earfcn, 1), earfcn)

legacy_earfcn_to_mhz_open_end(earfcn) ==
  LteResult(LEGACY_LTE_BANDS, FirstMatchOpenEnd(LEGACY_LTE_BANDS, earfcn, 1), earfcn)

legacy_earfcn_to_mhz(earfcn) ==
  LteResult(LEGACY_LTE_BANDS, FirstMatch(LEGACY_LTE_BANDS, earfcn, 1), earfcn)

nrarfcn_to_mhz_zero(arfcn) ==
  LET i == FirstMatch(NR5G_BANDS, arfcn, 1)
  IN  IF i = 0 THEN <<Some(0), Some(0)>>
      ELSE <<Some(3000000 + 15 * (arfcn - 600000)), Some(NR5G_BANDS[i][1])>>

\* freq = 3000.0 + 0.015 * (arfcn - 600000), in kHz.
nrarfcn_to_mhz(arfcn) ==
  LET i == FirstMatch(NR5G_BANDS, arfcn, 1)
  IN  IF i = 0 THEN <<None, None>>
      ELSE <<Some(3000000 + 15 * (arfcn - 600000)), Some(NR5G_BANDS[i][1])>>

\* A raster with the 15 kHz step on the whole range, which is not the code's.
nrarfcn_to_freq_khz_one_step(arfcn) == 3000000 + (arfcn - 600000) * 15

\* legacy: the 3GPP global frequency raster, in kHz.
nrarfcn_to_freq_khz(arfcn) ==
  IF arfcn < 600000 THEN arfcn * 5
  ELSE IF arfcn < 2016667 THEN 3000000 + (arfcn - 600000) * 15
  ELSE 24250080 + (arfcn - 2016667) * 60

legacy_nrarfcn_to_mhz_last_match(arfcn) ==
  LET i == LastMatch(LEGACY_NR5G_BANDS, arfcn, Len(LEGACY_NR5G_BANDS))
  IN  IF i = 0 THEN <<None, None>>
      ELSE <<Some(nrarfcn_to_freq_khz(arfcn)), Some(LEGACY_NR5G_BANDS[i][1])>>

\* legacy: (freq_khz / 1000.0, band) of the first row that holds arfcn.
legacy_nrarfcn_to_mhz(arfcn) ==
  LET i == FirstMatch(LEGACY_NR5G_BANDS, arfcn, 1)
  IN  IF i = 0 THEN <<None, None>>
      ELSE <<Some(nrarfcn_to_freq_khz(arfcn)), Some(LEGACY_NR5G_BANDS[i][1])>>

-----------------------------------------------------------------------------
(* quectel/thresholds.py: the signal classifier                            *)

\* RSRP thresholds (dBm).
RSRP_THRESHOLDS == [EXCELLENT |-> -80, GOOD |-> -90, FAIR |-> -100, POOR |-> -110]

\* RSRQ thresholds (dB).
RSRQ_THRESHOLDS == [EXCELLENT |-> -10, GOOD |-> -12, FAIR |-> -15, POOR |-> -20]

\* LTE SINR thresholds (dB).
LTE_SINR_THRESHOLDS == [EXCELLENT |-> 20, GOOD |-> 13, FAIR |-> 0, POOR |-> -20]

\* NR5G SINR thresholds (dB).
NR5G_SINR_THRESHOLDS == [EXCELLENT |-> 20, GOOD |-> 13, FAIR |-> 0, POOR |-> -20]

\* A classifier whose comparisons are strict.
classify_rsrp_strict(value) ==
  IF IsNone(value) THEN "unknown"
  ELSE IF value.some > RSRP_THRESHOLDS.EXCELLENT THEN "excellent"
  ELSE IF value.some > RSRP_THRESHOLDS.GOOD THEN "good"
  ELSE IF value.some > RSRP_THRESHOLDS.FAIR THEN "fair"
  ELSE "poor"

\* value: Optional[int]
classify_rsrp(value) ==
  IF IsNone(value) THEN "unknown"
  ELSE IF value.some >= RSRP_THRESHOLDS.EXCELLENT THEN "excellent"
  ELSE IF value.some >= RSRP_THRESHOLDS.GOOD THEN "good"
  ELSE IF value.some >= RSRP_THRESHOLDS.FAIR THEN "fair"
  ELSE "poor"

\* value: Optional[int]
classify_rsrq(value) ==
  IF IsNone(value) THEN "unknown"
  ELSE IF value.some >= RSRQ_THRESHOLDS.EXCELLENT THEN "excellent"
  ELSE IF value.some >= RSRQ_THRESHOLDS.GOOD THEN "good"
  ELSE IF value.some >= RSRQ_THRESHOLDS.FAIR THEN "fair"
  ELSE "poor"

\* value: Optional[float]
classify_sinr(value, is_5g) ==
  LET thresholds == IF is_5g THEN NR5G_SINR_THRESHOLDS ELSE LTE_SINR_THRESHOLDS
  IN  IF IsNone(value) THEN "unknown"
      ELSE IF value.some >= Flt(thresholds.EXCELLENT) THEN "excellent"
      ELSE IF value.some >= Flt(thresholds.GOOD) THEN "good"
      ELSE IF value.some >= Flt(thresholds.FAIR) THEN "fair"
      ELSE "poor"

\* The step function with the equality tests of the monitor script.
sinr_to_beep_count_equal(sinr) ==
  IF IsNone(sinr) THEN 0
  ELSE IF sinr.some >= Flt(19) THEN 6
  ELSE IF sinr.some = Flt(18) THEN 5
  ELSE IF sinr.some = Flt(17) THEN 4
  ELSE IF sinr.some = Flt(16) THEN 3
  ELSE IF sinr.some >= Flt(14) THEN 2
  ELSE IF sinr.some >= Flt(12) THEN 1
  ELSE 0

\* The step function with every >= turned into >, which is not the code's.
sinr_to_beep_count_strict(sinr) ==
  IF IsNone(sinr) THEN 0
  ELSE IF sinr.some > Flt(19) THEN 6
  ELSE IF sinr.some > Flt(18) THEN 5
  ELSE IF sinr.some > Flt(17) THEN 4
  ELSE IF sinr.some > Flt(16) THEN 3
  ELSE IF sinr.some > Flt(14) THEN 2
  ELSE IF sinr.some > Flt(12) THEN 1
  ELSE 0

\* sinr: Optional[float]
sinr_to_beep_count(sinr) ==
  IF IsNone(sinr) THEN 0
  ELSE IF sinr.some >= Flt(19) THEN 6
  ELSE IF sinr.some >= Flt(18) THEN 5
  ELSE IF sinr.some >= Flt(17) THEN 4
  ELSE IF sinr.some >= Flt(16) THEN 3
  ELSE IF sinr.some >= Flt(14) THEN 2
  ELSE IF sinr.some >= Flt(12) THEN 1
  ELSE 0

\* 5g-monitor.py: sinr is the token text; `except: return 0` covers float().
beep_sequence(sinr) ==
  LET val == PyFloat(sinr)
  IN  IF IsNone(val) THEN 0
      ELSE sinr_to_beep_count_equal(val)

-----------------------------------------------------------------------------
(* quectel/parser.py: value helpers                                        *)

\* What a decoder call ends with: the value it returns, or Raise(exc).
Return(v) == [value |-> v]

\* A cleaning that removes one pair of enclosing quotes, which is not the
\* code's.
clean_value_one_layer(val) ==
  LET v == Strip(val)
  IN  IF Len(v) >= 2 /\ Ch(v, 1) = "\"" /\ Ch(v, Len(v)) = "\""
      THEN SubSeq(v, 2, Len(v) - 1)
      ELSE v

\* val.strip().strip('"')
clean_value(val) == StripQuotes(Strip(val))

\* A reading that takes 0 for a missing value as well, which is not the
\* code's.
parse_int_zero_missing(val) ==
  LET v == clean_value(val)
  IN  IF v = "" \/ v = "-" \/ v = "0" THEN None ELSE PyInt(v)

\* None for an empty value, the "-" placeholder and anything int() rejects.
parse_int(val) ==
  LET v == clean_value(val)
  IN  IF v = "" \/ v = "-" THEN None ELSE PyInt(v)

parse_float(val) ==
  LET v == clean_value(val)
  IN  IF v = "" \/ v = "-" THEN None ELSE PyFloat(v)

\* A reading of a hexadecimal field in base 10, which is not the code's.
parse_hex_base_ten(val) ==
  LET v == clean_value(val)
  IN  IF v = "" \/ v = "-" THEN None ELSE PyInt(v)

parse_hex(val) ==
  LET v == clean_value(val)
  IN  IF v = "" \/ v = "-" THEN None ELSE PyIntHex(v)

\* [_clean_value(p) for p in content.split(",")]
CleanParts(content) ==
  LET ps == Split(content, ",")
  IN  [ i \in 1..Len(ps) |-> clean_value(ps[i]) ]

\* parts[i] of the source (0-based).
Part(parts, i) == parts[i + 1]

\* Reading parts[i] for some i of idxs raises IndexError.
Missing(parts, idxs) == \E i \in idxs : i >= Len(parts)

\* int(parts[i]) for some i of idxs raises ValueError.
NotInt(parts, idxs) == \E i \in idxs : IsNone(PyInt(Part(parts, i)))

\* An except clause that catches IndexError alone, which is not the code's.
IndexErrorOnly == {"IndexError"}

\* `except (ValueError, IndexError)` of parse_qeng_servingcell,
\* parse_qcainfo and parse_qeng_neighbourcell.
ServingcellCaught == {"ValueError", "IndexError"}

QcainfoCaught == {"ValueError", "IndexError"}

NeighbourcellCaught == {"ValueError", "IndexError"}

-----------------------------------------------------------------------------
(* parse_ati                                                               *)

\* [l.strip() for l in response.splitlines() if l.strip()], then without the
\* lines that are OK or ERROR.
RECURSIVE UsableLines(_)
UsableLines(lines) ==
  IF lines = <<>> THEN <<>>
  ELSE LET l == Strip(Head(lines))
       IN  IF l = "" \/ l \in {"OK", "ERROR"} THEN UsableLines(Tail(lines))
           ELSE <<l>> \o UsableLines(Tail(lines))

\* The `for line in lines[2:]` loop: the revision of the first line that
\* starts with "Revision:", "" when no line does.
RECURSIVE AtiRevision(_)
AtiRevision(lines) ==
  IF lines = <<>> THEN ""
  ELSE IF StartsWith(Head(lines), "Revision:")
       THEN Strip(Replace(Head(lines), "Revision:", ""))
       ELSE AtiRevision(Tail(lines))

parse_ati(response) ==
  LET lines == UsableLines(SplitLines(response))
  IN  IF Len(lines) < 3 THEN Return(None)
      ELSE Return(Some([ manufacturer |-> lines[1],
                         model |-> lines[2],
                         revision |-> AtiRevision(SubSeq(lines, 3, Len(lines))) ]))

-----------------------------------------------------------------------------
(* parse_qspn                                                              *)

\* The end (0-based, exclusive) of the longest run of characters of s from
\* index k on that satisfy: in cs when inSet, not in cs otherwise.
RECURSIVE RunEnd(_, _, _, _)
RunEnd(s, k, cs, inSet) ==
  IF k < Len(s) /\ ((Ch(s, k + 1) \in cs) = inSet)
  THEN RunEnd(s, k + 1, cs, inSet)
  ELSE k

\* s has the literal lit at index k.
LitAt(s, k, lit) == k + Len(lit) <= Len(s) /\ SubSeq(s, k + 1, k + Len(lit)) = lit

\* \+QSPN:\s*"([^"]*)","([^"]*)",[^,]*,[^,]*,"(\d+)" tried at index k: the
\* three groups, or None.  Each starred class is followed by a character
\* outside the class, so the match has no choice to make.
QspnMatchAt(s, k) ==
  LET a == k + 6
      b == RunEnd(s, a, Whitespace, TRUE)
      c == RunEnd(s, b + 1, {"\""}, FALSE)
      d == RunEnd(s, c + 3, {"\""}, FALSE)
      e == RunEnd(s, d + 2, {","}, FALSE)
      f == RunEnd(s, e + 1, {","}, FALSE)
      g == RunEnd(s, f + 2, DecDigits, TRUE)
  IN  IF /\ LitAt(s, k, "+QSPN:")
         /\ LitAt(s, b, "\"")
         /\ LitAt(s, c, "\",\"")
         /\ LitAt(s, d, "\",")
         /\ LitAt(s, e, ",")
         /\ LitAt(s, f, ",\"")
         /\ g > f + 2
         /\ LitAt(s, g, "\"")
      THEN Some(<< SubSeq(s, b + 2, c), SubSeq(s, c + 4, d), SubSeq(s, f + 3, g) >>)
      ELSE None

\* re.search: the match at the leftmost index that has one.
RECURSIVE QspnSearch(_, _)
QspnSearch(s, k) ==
  IF k >= Len(s) THEN None
  ELSE IF IsSome(QspnMatchAt(s, k)) THEN QspnMatchAt(s, k)
  ELSE QspnSearch(s, k + 1)

\* A split after the second digit, which is not the code's.
SplitMccMncAtTwo(digits) ==
  IF Len(digits) >= 5
  THEN [ mcc |-> PyInt(SubSeq(digits, 1, 2)).some, mnc |-> PyInt(From(digits, 2)).some ]
  ELSE [ mcc |-> 0, mnc |-> 0 ]

\* if len(mcc_mnc) >= 5: int(mcc_mnc[:3]), int(mcc_mnc[3:]); else 0, 0.
SplitMccMnc(digits) ==
  IF Len(digits) >= 5
  THEN [ mcc |-> PyInt(SubSeq(digits, 1, 3)).some, mnc |-> PyInt(From(digits, 3)).some ]
  ELSE [ mcc |-> 0, mnc |-> 0 ]

parse_qspn(response) ==
  LET match == QspnSearch(response, 0)
  IN  IF IsNone(match) THEN Return(None)
      ELSE Return(Some([ full_name |-> match.some[1],
                         short_name |-> match.some[2],
                         mcc |-> SplitMccMnc(match.some[3]).mcc,
                         mnc |-> SplitMccMnc(match.some[3]).mnc ]))

-----------------------------------------------------------------------------
(* parse_qeng_servingcell                                                  *)

\* The try block of the LTE branch: the record, or the exception.
LteBody(parts) ==
  IF Missing(parts, 1..16) THEN Raise("IndexError")
  ELSE IF NotInt(parts, {2, 3, 5, 6, 7}) THEN Raise("ValueError")
  ELSE LET tx == IF Part(parts, 16) # "-" THEN parse_float(Part(parts, 16)) ELSE None
       IN  Return([ mode |-> Part(parts, 1),
                    mcc |-> PyInt(Part(parts, 2)).some,
                    mnc |-> PyInt(Part(parts, 3)).some,
                    cell_id |-> OrElse(parse_hex(Part(parts, 4)), 0),
                    pci |-> PyInt(Part(parts, 5)).some,
                    earfcn |-> PyInt(Part(parts, 6)).some,
                    band |-> PyInt(Part(parts, 7)).some,
                    ul_bandwidth_idx |-> OrElse(parse_int(Part(parts, 8)), 0),
                    dl_bandwidth_idx |-> OrElse(parse_int(Part(parts, 9)), 0),
                    tac |-> OrElse(parse_hex(Part(parts, 10)), 0),
                    rsrp |-> OrElse(parse_int(Part(parts, 11)), 0),
                    rsrq |-> OrElse(parse_int(Part(parts, 12)), 0),
                    rssi |-> OrElse(parse_int(Part(parts, 13)), 0),
                    sinr |-> OrElse(parse_float(Part(parts, 14)), 0),
                    cqi |-> parse_int(Part(parts, 15)),
                    \* tx_power / 10.0 when it is not None
                    tx_power |-> IF IsNone(tx) THEN None ELSE Some(tx.some \div 10) ])

\* The try block of the NR5G-NSA branch.
NrBody(parts) ==
  IF Missing(parts, 1..9) THEN Raise("IndexError")
  ELSE IF NotInt(parts, {1, 2, 3, 4, 6, 7, 8, 9}) \/ IsNone(PyFloat(Part(parts, 5)))
       THEN Raise("ValueError")
  ELSE Return([ mcc |-> PyInt(Part(parts, 1)).some,
                mnc |-> PyInt(Part(parts, 2)).some,
                pci |-> PyInt(Part(parts, 3)).some,
                rsrp |-> PyInt(Part(parts, 4)).some,
                sinr |-> PyFloat(Part(parts, 5)).some,
                rsrq |-> PyInt(Part(parts, 6)).some,
                arfcn |-> PyInt(Part(parts, 7)).some,
                band |-> PyInt(Part(parts, 8)).some,
                bandwidth_idx |-> PyInt(Part(parts, 9)).some ])

\* if parts[0] == "LTE" and len(parts) >= 17
IsLteLine(parts) == Part(parts, 0) = "LTE" /\ Len(parts) >= 17

\* elif "NR5G-NSA" in parts[0] and len(parts) >= 10, with equality in place
\* of containment in a variant that is not the code's.
IsNrLineExact(parts) == Part(parts, 0) = "NR5G-NSA" /\ Len(parts) >= 10

IsNrLine(parts) == Contains(Part(parts, 0), "NR5G-NSA") /\ Len(parts) >= 10

\* A pass that drops the record of its kind when the line's try block
\* raises, which is not the code's.
ServingcellLineClearing(cells, rawline) ==
  LET line == Strip(rawline)
      parts == CleanParts(Strip(From(line, 7)))
  IN  IF ~StartsWith(line, "+QENG:") THEN cells
      ELSE IF Len(parts) < 2 THEN cells
      ELSE IF IsLteLine(parts)
           THEN LET r == LteBody(parts)
                IN  IF IsRaise(r)
                    THEN [cells EXCEPT !.lte_cell = None]
                    ELSE [cells EXCEPT !.lte_cell = Some(r.value)]
      ELSE IF IsNrLine(parts)
           THEN LET r == NrBody(parts)
                IN  IF IsRaise(r)
                    THEN [cells EXCEPT !.nr5g_cell = None]
                    ELSE [cells EXCEPT !.nr5g_cell = Some(r.value)]
      ELSE cells

\* One pass of the loop over response.splitlines(): cells holds lte_cell
\* and nr5g_cell; the result is cells after the line, or the exception that
\* leaves the loop.
ServingcellLine(cells, rawline) ==
  LET line == Strip(rawline)
      parts == CleanParts(Strip(From(line, 7)))
  IN  IF ~StartsWith(line, "+QENG:") THEN cells
      ELSE IF Len(parts) < 2 THEN cells
      ELSE IF IsLteLine(parts)
           THEN LET r == LteBody(parts)
                IN  IF IsRaise(r)
                    THEN IF r.raise \in ServingcellCaught THEN cells ELSE r
                    ELSE [cells EXCEPT !.lte_cell = Some(r.value)]
      ELSE IF IsNrLine(parts)
           THEN LET r == NrBody(parts)
                IN  IF IsRaise(r)
                    THEN IF r.raise \in ServingcellCaught THEN cells ELSE r
                    ELSE [cells EXCEPT !.nr5g_cell = Some(r.value)]
      ELSE cells

RECURSIVE ServingcellLoop(_, _)
ServingcellLoop(cells, lines) ==
  IF lines = <<>> THEN Return(<<cells.lte_cell, cells.nr5g_cell>>)
  ELSE LET next == ServingcellLine(cells, Head(lines))
       IN  IF IsRaise(next) THEN next ELSE ServingcellLoop(next, Tail(lines))

parse_qeng_servingcell(response) ==
  ServingcellLoop([lte_cell |-> None, nr5g_cell |-> None], SplitLines(response))

-----------------------------------------------------------------------------
(* parse_qcainfo                                                           *)

\* states.get(code, "N/A")
pcell_state(code) ==
  CASE code = "0" -> "Idle"
    [] code = "1" -> "Registered"
    [] code = "2" -> "Searching"
    [] code = "3" -> "Denied"
    [] code = "4" -> "Unknown"
    [] code = "5" -> "Roaming"
    [] OTHER -> "N/A"

\* A decoding of the secondary cell's state that knows the codes 3, 4 and
\* 5, which is not the code's.
scell_state_six_codes(code) ==
  CASE code = "0" -> "Deconfigured"
    [] code = "1" -> "Inactive"
    [] code = "2" -> "Active"
    [] code = "3" -> "Denied"
    [] code = "4" -> "Unknown"
    [] code = "5" -> "Roaming"
    [] OTHER -> "N/A"

scell_state(code) ==
  CASE code = "0" -> "Deconfigured"
    [] code = "1" -> "Inactive"
    [] code = "2" -> "Active"
    [] OTHER -> "N/A"

\* A chain that sends every SCC line of 12 parts or more down the
\* 12-part branch, which is not the code's.
QcaLayoutNoFull(parts) ==
  IF Part(parts, 0) = "PCC"
  THEN IF Len(parts) >= 10 THEN "pcc" ELSE "bare"
  ELSE CASE Len(parts) = 5 -> "scc5"
         [] Len(parts) = 9 -> "scc9"
         [] Len(parts) >= 12 -> "scc12"
         [] OTHER -> "bare"

\* A chain that sends an SCC line of 12 parts down the 9-part branch, which
\* is not the code's.
QcaLayoutNoTwelve(parts) ==
  IF Part(parts, 0) = "PCC"
  THEN IF Len(parts) >= 10 THEN "pcc" ELSE "bare"
  ELSE CASE Len(parts) = 5 -> "scc5"
         [] Len(parts) \in {9, 12} -> "scc9"
         [] Len(parts) >= 13 -> "scc13"
         [] OTHER -> "bare"

\* A chain that has the SCC layouts for the type SCC alone, which is not
\* the code's.
QcaLayoutSccOnly(parts) ==
  IF Part(parts, 0) = "PCC"
  THEN IF Len(parts) >= 10 THEN "pcc" ELSE "bare"
  ELSE IF Part(parts, 0) # "SCC" THEN "bare"
  ELSE CASE Len(parts) = 5 -> "scc5"
         [] Len(parts) = 9 -> "scc9"
         [] Len(parts) = 12 -> "scc12"
         [] Len(parts) >= 13 -> "scc13"
         [] OTHER -> "bare"

\* The branch of the if/elif chain a line of these parts takes.
QcaLayout(parts) ==
  IF Part(parts, 0) = "PCC"
  THEN IF Len(parts) >= 10 THEN "pcc" ELSE "bare"
  ELSE CASE Len(parts) = 5 -> "scc5"
         [] Len(parts) = 9 -> "scc9"
         [] Len(parts) = 12 -> "scc12"
         [] Len(parts) >= 13 -> "scc13"
         [] OTHER -> "bare"

\* The indices of parts the branch reads, next to 0..3 read before it.
QcaReads(layout) ==
  CASE layout = "pcc" -> {4, 5, 6, 7, 9}
    [] layout = "scc5" -> {4}
    [] layout = "scc9" -> {4, 5, 6, 7, 8}
    [] layout = "scc12" -> {4, 5, 6, 7, 8, 9, 10, 11}
    [] layout = "scc13" -> {4, 5, 6, 7, 9, 10, 11, 12}
    [] OTHER -> {}

\* parts[i] if parts[i] != "-" else None
UlBand(parts, i) == IF Part(parts, i) # "-" THEN Some(Part(parts, i)) ELSE None

\* The component of one line with at least 5 parts, or the exception its
\* try block raises.
QcaBody(parts) ==
  LET layout == QcaLayout(parts)
      base == [ component_type |-> Part(parts, 0),
                earfcn |-> OrElse(parse_int(Part(parts, 1)), 0),
                bandwidth_raw |-> OrElse(parse_int(Part(parts, 2)), 0),
                band_name |-> Part(parts, 3),
                state |-> None,
                pci |-> 0,
                rsrp |-> None,
                rsrq |-> None,
                sinr |-> None,
                ul_configured |-> None,
                ul_band |-> None,
                ul_earfcn |-> None ]
      signal(r, q, s) == [ rsrp |-> parse_int(Part(parts, r)),
                           rsrq |-> parse_int(Part(parts, q)),
                           sinr |-> parse_float(Part(parts, s)) ]
      uplink(c, b, e) == [ ul_configured |-> parse_int(Part(parts, c)),
                           ul_band |-> UlBand(parts, b),
                           ul_earfcn |-> parse_int(Part(parts, e)) ]
      with(f, g) == [ k \in DOMAIN f |-> IF k \in DOMAIN g THEN g[k] ELSE f[k] ]
      pci5 == [ pci |-> OrElse(parse_int(Part(parts, 5)), 0) ]
  IN  IF Missing(parts, QcaReads(layout)) THEN Raise("IndexError")
      ELSE Return(
        CASE layout = "pcc" ->
               with(with(with(base, [ state |-> Some(pcell_state(Part(parts, 4))) ]),
                         pci5), signal(6, 7, 9))
          [] layout = "scc5" ->
               with(base, [ pci |-> OrElse(parse_int(Part(parts, 4)), 0) ])
          [] layout = "scc9" ->
               with(with(with(base, [ state |-> Some(scell_state(Part(parts, 4))) ]),
                         pci5), uplink(6, 7, 8))
          [] layout = "scc12" ->
               with(with(with(with(base, [ state |-> Some(scell_state(Part(parts, 4))) ]),
                              pci5), uplink(6, 7, 8)), signal(9, 10, 11))
          [] layout = "scc13" ->
               with(with(with(with(base, [ state |-> Some(scell_state(Part(parts, 4))) ]),
                              pci5), signal(6, 7, 9)), uplink(10, 11, 12))
          [] OTHER -> base)

\* One pass of the loop: components after the line, or the exception that
\* leaves the loop.
QcainfoLine(components, rawline) ==
  LET line == Strip(rawline)
      parts == CleanParts(Strip(From(line, 10)))
  IN  IF ~StartsWith(line, "+QCAINFO:") THEN Return(components)
      ELSE IF Len(parts) < 5 THEN Return(components)
      ELSE LET r == QcaBody(parts)
           IN  IF IsRaise(r)
               THEN IF r.raise \in QcainfoCaught THEN Return(components) ELSE r
               ELSE Return(Append(components, r.value))

RECURSIVE QcainfoLoop(_, _)
QcainfoLoop(components, lines) ==
  IF lines = <<>> THEN Return(components)
  ELSE LET next == QcainfoLine(components, Head(lines))
       IN  IF IsRaise(next) THEN next ELSE QcainfoLoop(next.value, Tail(lines))

parse_qcainfo(response) == QcainfoLoop(<<>>, SplitLines(response))

-----------------------------------------------------------------------------
(* parse_qeng_neighbourcell                                                *)

\* [p.strip() for p in content.split(",")]
StripParts(content) ==
  LET ps == Split(content, ",")
  IN  [ i \in 1..Len(ps) |-> Strip(ps[i]) ]

\* The try block: the cell to append, None for the `continue` of a
\* technology other than LTE, or the exception.
NeighbourBody(cell_type, parts) ==
  IF Missing(parts, {0}) THEN Raise("IndexError")
  ELSE IF Part(parts, 0) # "LTE" THEN Return(None)
  ELSE IF Missing(parts, 1..5) THEN Raise("IndexError")
  ELSE IF NotInt(parts, {1, 2}) THEN Raise("ValueError")
  ELSE Return(Some([ cell_type |-> cell_type,
                     technology |-> Part(parts, 0),
                     earfcn |-> PyInt(Part(parts, 1)).some,
                     pci |-> PyInt(Part(parts, 2)).some,
                     rsrq |-> OrElse(parse_int(Part(parts, 3)), 0),
                     rsrp |-> OrElse(parse_int(Part(parts, 4)), 0),
                     rssi |-> OrElse(parse_int(Part(parts, 5)), 0) ]))

\* A length test that asks for 7 parts, which is not the code's.
TooShortOfSeven(parts) == Len(parts) < 7

\* if len(parts) < 6: continue
TooShort(parts) == Len(parts) < 6

NeighbourcellLine(cells, rawline) ==
  LET line == Strip(rawline)
      cell_type == IF Contains(line, "intra") THEN "intra" ELSE "inter"
      content == Replace(Replace(Replace(line,
                   "+QENG: \"neighbourcell intra\",", ""),
                   "+QENG: \"neighbourcell inter\",", ""),
                   "\"", "")
      parts == StripParts(content)
  IN  IF ~Contains(line, "neighbourcell") THEN Return(cells)
      ELSE IF ~Contains(line, "intra") /\ ~Contains(line, "inter") THEN Return(cells)
      ELSE IF TooShort(parts) THEN Return(cells)
      ELSE LET r == NeighbourBody(cell_type, parts)
           IN  IF IsRaise(r)
               THEN IF r.raise \in NeighbourcellCaught THEN Return(cells) ELSE r
               ELSE IF IsNone(r.value) THEN Return(cells)
               ELSE Return(Append(cells, r.value.some))

RECURSIVE NeighbourcellLoop(_, _)
NeighbourcellLoop(cells, lines) ==
  IF lines = <<>> THEN Return(cells)
  ELSE LET next == NeighbourcellLine(cells, Head(lines))
       IN  IF IsRaise(next) THEN next ELSE NeighbourcellLoop(next.value, Tail(lines))

parse_qeng_neighbourcell(response) == NeighbourcellLoop(<<>>, SplitLines(response))

-----------------------------------------------------------------------------
(* parse_qnwprefcfg                                                        *)

\* re.match(r'"([^"]+)",(.+)', content): the two groups, or None.  content
\* is one stripped line, so the final .+ takes all that is left of it.
PrefMatch(content) ==
  LET c == RunEnd(content, 1, {"\""}, FALSE)
  IN  IF /\ LitAt(content, 0, "\"")
         /\ c > 1
         /\ LitAt(content, c, "\",")
         /\ Len(content) > c + 2
      THEN Some(<< SubSeq(content, 2, c), From(content, c + 2) >>)
      ELSE None

\* config.setdefault(key, value), which is not the code's assignment.
DictSetDefault(config, key, value) ==
  [ k \in DOMAIN config \cup {key} |-> IF k \in DOMAIN config THEN config[k] ELSE value ]

\* config[key] = value
DictSet(config, key, value) ==
  [ k \in DOMAIN config \cup {key} |-> IF k = key THEN value ELSE config[k] ]

PrefLine(config, rawline) ==
  LET line == Strip(rawline)
      match == PrefMatch(Strip(From(line, 13)))
  IN  IF ~StartsWith(line, "+QNWPREFCFG:") THEN config
      ELSE IF IsNone(match) THEN config
      ELSE DictSet(config, match.some[1], Strip(match.some[2]))

RECURSIVE PrefLoop(_, _)
PrefLoop(config, lines) ==
  IF lines = <<>> THEN Return(config)
  ELSE PrefLoop(PrefLine(config, Head(lines)), Tail(lines))

parse_qnwprefcfg(response) == PrefLoop(<<>>, SplitLines(response))

-----------------------------------------------------------------------------
(* Channel numbers the conversions are called with                          *)

\* How far around each end of each table row every channel number is taken.
EdgeWidth == 2

\* Between the ends, every EarfcnStride-th EARFCN and every ArfcnStride-th
\* NR-ARFCN is taken.
EarfcnStride == 7

ArfcnStride == 997

Edges(table) ==
  UNION { ((table[i][2] - EdgeWidth)..(table[i][2] + EdgeWidth))
            \cup ((table[i][3] - EdgeWidth)..(table[i][3] + EdgeWidth))
          : i \in 1..Len(table) }

EarfcnInputs ==
  { n \in Edges(LTE_BANDS) \cup Edges(LEGACY_LTE_BANDS) : n >= 0 }
    \cup { k * EarfcnStride : k \in 0..(71000 \div EarfcnStride) }
    \cup { 275, 1350, 3000, 6300, 38000, 40000, 66900, 68700, 999999 }

\* Every NR-ARFCN of the n78/n77 rows, the ends of every other row, and a
\* strided sample of the whole numbering range.
ArfcnInputs ==
  Edges(NR5G_BANDS) \cup Edges(LEGACY_NR5G_BANDS)
    \cup (619990..680010)
    \cup { k * ArfcnStride : k \in 0..(3279165 \div ArfcnStride) }
    \cup { 100000, 390000, 356500, 520000, 648768, 660000, 710000, 2080000, 999999 }

-----------------------------------------------------------------------------
(* The calls.  The functions keep no state between calls, so every call    *)
(* is taken from the state in which nothing has been called.               *)

EarfcnToMhz ==
  /\ op = "none"
  /\ UNCHANGED programVars
  /\ \E n \in EarfcnInputs :
       /\ op' = "earfcn_to_mhz"
       /\ arg' = n
       /\ ret' = earfcn_to_mhz(n)

NrarfcnToMhz ==
  /\ op = "none"
  /\ UNCHANGED programVars
  /\ \E n \in ArfcnInputs :
       /\ op' = "nrarfcn_to_mhz"
       /\ arg' = n
       /\ ret' = nrarfcn_to_mhz(n)

LegacyEarfcnToMhz ==
  /\ op = "none"
  /\ UNCHANGED programVars
  /\ \E n \in EarfcnInputs :
       /\ op' = "legacy.earfcn_to_mhz"
       /\ arg' = n
       /\ ret' = legacy_earfcn_to_mhz(n)

LegacyNrarfcnToMhz ==
  /\ op = "none"
  /\ UNCHANGED programVars
  /\ \E n \in ArfcnInputs :
       /\ op' = "legacy.nrarfcn_to_mhz"
       /\ arg' = n
       /\ ret' = legacy_nrarfcn_to_mhz(n)

\* The line a value was read from: poll cycle, section, line number and text.
NoSrc == [cycle |-> 0, sect |-> "", idx |-> 0, line |-> ""]

\* A local of main() that no assignment has reached yet.
Unbound == [bound |-> FALSE, v |-> None, src |-> NoSrc]

\* defaultdict(dict)
EmptyCache == [ k \in {} |-> None ]

\* Nothing has been called yet; main() has not entered its loop.
Init ==
  /\ op = "none"
  /\ arg = None
  /\ ret = None
  /\ pc = "idle"
  /\ cycle = 0
  /\ cache = EmptyCache
  /\ beeps = [n |-> 0, cycle |-> 0]
  /\ loc = [pci |-> Unbound, rsrp |-> Unbound, rsrq |-> Unbound,
            sinr |-> Unbound, state |-> Unbound]
  /\ pending = <<>>
  /\ lineno = 0
  /\ shown = None
  /\ played = None
  /\ fault = None
  /\ spc = "idle"
  /\ inbuf = <<>>
  /\ response_lines = <<>>
  /\ clock = 0
  /\ end_time = 0
  /\ reply = None
  /\ arrived = <<>>
  /\ nread = 0
  /\ ppc = "idle"
  /\ ncand = 0
  /\ device = 0
  /\ ports = {}
  /\ backend = 0
  /\ probed = None
  /\ found = None
  /\ failed = {}

NextFreq ==
  \/ EarfcnToMhz
  \/ NrarfcnToMhz
  \/ LegacyEarfcnToMhz
  \/ LegacyNrarfcnToMhz

SpecFreq == Init /\ [][NextFreq]_vars

-----------------------------------------------------------------------------
(* Properties of the frequency conversions (checked under SpecFreq)        *)

\* The rows of a table whose range holds channel number n.
RowsHolding(table, n) ==
  { i \in 1..Len(table) : table[i][2] <= n /\ n <= table[i][3] }

OpsLte == {"earfcn_to_mhz", "legacy.earfcn_to_mhz"}

OpsNr == {"nrarfcn_to_mhz", "legacy.nrarfcn_to_mhz"}

TableOf(o) ==
  CASE o = "earfcn_to_mhz" -> LTE_BANDS
    [] o = "legacy.earfcn_to_mhz" -> LEGACY_LTE_BANDS
    [] o = "nrarfcn_to_mhz" -> NR5G_BANDS
    [] o = "legacy.nrarfcn_to_mhz" -> LEGACY_NR5G_BANDS

\* C2: every NR-ARFCN in 620000..653333, which the n78 row and the broader
\* n77 row both hold, is given band 78 and never 77; 648768 is band 78 at
\* 3731.52 MHz; an NR-ARFCN in 653334..680000 is given band 77 (by the full
\* table of legacy/python, the only one with an n77 row).
C2_N78BeforeN77 ==
  /\ (op \in OpsNr /\ arg \in 620000..653333) => ret[2] = Some(78)
  /\ (op \in OpsNr /\ arg = 648768) => ret = <<Some(3731520), Some(78)>>
  /\ (op = "legacy.nrarfcn_to_mhz" /\ arg \in 653334..680000)
        => ret[2] = Some(77)

\* C2's case: the legacy conversion was called with 648768, which rows n78,
\* n77 and n97 all hold, and answered band 78.
C2_Witness ==
  /\ op = "legacy.nrarfcn_to_mhz"
  /\ arg = 648768
  /\ Cardinality(RowsHolding(LEGACY_NR5G_BANDS, arg)) >= 2
  /\ ret[2] = Some(78)

\* C3: an EARFCN inside the range of a row of LTE_BANDS is given exactly that
\* row's band and the frequency lowMHz + 0.1 x (n - offset); 1350 is band 3
\* at 1820.0 MHz; no EARFCN lies in two rows of the table.
C3_LteRowFormula ==
  /\ op \in OpsLte =>
       /\ \A i \in RowsHolding(TableOf(op), arg) :
            ret = << Some(TableOf(op)[i][4] + 100 * (arg - TableOf(op)[i][5])),
                     Some(TableOf(op)[i][1]) >>
       /\ Cardinality(RowsHolding(TableOf(op), arg)) <= 1
       /\ arg = 1350 => ret = <<Some(1820000), Some(3)>>
       \* the rows ascend without touching, so no two of them overlap
       /\ \A i \in 1..Len(TableOf(op)) :
            /\ TableOf(op)[i][2] <= TableOf(op)[i][3]
            /\ i > 1 => TableOf(op)[i - 1][3] < TableOf(op)[i][2]

\* C3's case: EARFCN 1350, inside the band 3 row, was converted.
C3_Witness ==
  /\ op = "earfcn_to_mhz"
  /\ arg = 1350
  /\ RowsHolding(LTE_BANDS, arg) # {}
  /\ ret = <<Some(1820000), Some(3)>>

\* C4: a channel number that no row of the table holds is given the pair
\* (absent, absent); frequency and band are absent together, and an absent
\* result is never reported as zero.
C4_UnmatchedIsAbsent ==
  op \in OpsLte \cup OpsNr =>
    /\ RowsHolding(TableOf(op), arg) = {} => ret = <<None, None>>
    /\ IsNone(ret[1]) <=> IsNone(ret[2])
    /\ RowsHolding(TableOf(op), arg) = {} => ret # <<Some(0), Some(0)>>
    /\ arg \in {999999, 100000} => ret = <<None, None>>

\* C4's case: NR-ARFCN 100000 and EARFCN 999999 lie in no row.
C4_Witness ==
  /\ \/ op = "nrarfcn_to_mhz" /\ arg = 100000
     \/ op = "legacy.earfcn_to_mhz" /\ arg = 999999
  /\ RowsHolding(TableOf(op), arg) = {}
  /\ ret = <<None, None>>

-----------------------------------------------------------------------------
(* Values the classifier is called with                                    *)

\* RSRP and RSRQ run over -MaxDb..MaxDb; SINR over every tenth of a dB in
\* -MaxSinrTenths..MaxSinrTenths.
MaxDb == 130

MaxSinrTenths == 400

OptDb == {None} \cup { Some(v) : v \in (0 - MaxDb)..MaxDb }

OptSinr == {None} \cup { Some(k * 100) : k \in (0 - MaxSinrTenths)..MaxSinrTenths }

RECURSIVE NatText(_)
NatText(n) ==
  IF n < 10 THEN Ch("0123456789", n + 1)
  ELSE NatText(n \div 10) \o Ch("0123456789", (n % 10) + 1)

IntText(n) == IF n < 0 THEN "-" \o NatText(0 - n) ELSE NatText(n)

\* A number of tenths written with one decimal: 185 -> "18.5".
TenthsText(k) ==
  (IF k < 0 THEN "-" ELSE "")
    \o NatText((IF k < 0 THEN 0 - k ELSE k) \div 10) \o "."
    \o NatText((IF k < 0 THEN 0 - k ELSE k) % 10)

\* The SINR token the monitor hands to beep_sequence: a decimal, an integer,
\* a placeholder or something that is no number.
SinrTexts ==
  { TenthsText(k) : k \in (0 - MaxSinrTenths)..MaxSinrTenths }
    \cup { IntText(n) : n \in -40..40 }
    \cup { "-", "", "x", " 18 ", "18,5" }

ClassifyRsrp ==
  /\ op = "none"
  /\ UNCHANGED programVars
  /\ \E v \in OptDb :
       /\ op' = "classify_rsrp"
       /\ arg' = v
       /\ ret' = classify_rsrp(v)

ClassifyRsrq ==
  /\ op = "none"
  /\ UNCHANGED programVars
  /\ \E v \in OptDb :
       /\ op' = "classify_rsrq"
       /\ arg' = v
       /\ ret' = classify_rsrq(v)

ClassifySinr ==
  /\ op = "none"
  /\ UNCHANGED programVars
  /\ \E v \in OptSinr, is_5g \in BOOLEAN :
       /\ op' = "classify_sinr"
       /\ arg' = <<v, is_5g>>
       /\ ret' = classify_sinr(v, is_5g)

SinrToBeepCount ==
  /\ op = "none"
  /\ UNCHANGED programVars
  /\ \E v \in OptSinr :
       /\ op' = "sinr_to_beep_count"
       /\ arg' = v
       /\ ret' = sinr_to_beep_count(v)

BeepSequence ==
  /\ op = "none"
  /\ UNCHANGED programVars
  /\ \E s \in SinrTexts :
       /\ op' = "beep_sequence"
       /\ arg' = s
       /\ ret' = beep_sequence(s)

NextThresholds ==
  \/ ClassifyRsrp
  \/ ClassifyRsrq
  \/ ClassifySinr
  \/ SinrToBeepCount
  \/ BeepSequence

SpecThresholds == Init /\ [][NextThresholds]_vars

-----------------------------------------------------------------------------
(* Properties of the classifier (checked under SpecThresholds)             *)

\* The level of value v on the descending scale e > g > f.
LevelOf(v, e, g, f) ==
  IF v >= e THEN "excellent"
  ELSE IF v >= g THEN "good"
  ELSE IF v >= f THEN "fair"
  ELSE "poor"

\* C6: classify_rsrp, classify_rsrq and classify_sinr return the first level
\* whose threshold the value meets or exceeds (RSRP -80/-90/-100, RSRQ
\* -10/-12/-15, SINR 20/13/0), Poor below the Fair threshold and Unknown for
\* an absent value; the SINR level is the same for LTE and NR.  RSRP -80 is
\* Excellent and -81 Good; RSRQ -15 is Fair and -16 Poor.
C6_ClassifyLevels ==
  /\ op = "classify_rsrp" =>
       /\ IsNone(arg) <=> ret = "unknown"
       /\ IsSome(arg) => ret = LevelOf(arg.some, -80, -90, -100)
       /\ arg = Some(-80) => ret = "excellent"
       /\ arg = Some(-81) => ret = "good"
  /\ op = "classify_rsrq" =>
       /\ IsNone(arg) <=> ret = "unknown"
       /\ IsSome(arg) => ret = LevelOf(arg.some, -10, -12, -15)
       /\ arg = Some(-15) => ret = "fair"
       /\ arg = Some(-16) => ret = "poor"
  /\ op = "classify_sinr" =>
       /\ IsNone(arg[1]) <=> ret = "unknown"
       /\ IsSome(arg[1]) => ret = LevelOf(arg[1].some, 20000, 13000, 0)
       /\ ret = classify_sinr(arg[1], ~arg[2])

\* C6's case: a boundary value was classified.
C6_Witness ==
  /\ op = "classify_rsrp"
  /\ arg = Some(-80)
  /\ ret = "excellent"

\* The SINR value of a call of either alert step function, in thousandths.
BeepArg == IF op = "beep_sequence" THEN PyFloat(arg) ELSE arg

OpsBeep == {"sinr_to_beep_count", "beep_sequence"}

\* C7 as stated: alertIntensity(18.0) is 5, and alertIntensity(18.5) falls
\* through to the rule for 17 and is 4.
C7_AsStated ==
  op \in OpsBeep =>
    /\ BeepArg = Some(18000) => ret = 5
    /\ BeepArg = Some(18500) => ret = 4

\* C7 as amended: alertIntensity(18.0) is 5.  For 18.5, sinr_to_beep_count
\* tests sinr >= 18 and returns 5; the monitor script's beep_sequence tests
\* equality with 18, 17 and 16, none of which 18.5 meets, and returns 2 by
\* its rule for 14 and above.  Neither returns 4.
C7_Amended ==
  /\ op \in OpsBeep =>
       /\ BeepArg = Some(18000) => ret = 5
       /\ BeepArg = Some(18500) => ret # 4
  /\ (op = "sinr_to_beep_count" /\ arg = Some(18500)) => ret = 5
  /\ (op = "beep_sequence" /\ PyFloat(arg) = Some(18500)) => ret = 2

\* C7's case: the step function was called with 18.5.
C7_Witness ==
  /\ op = "sinr_to_beep_count"
  /\ arg = Some(18500)
  /\ ret = 5

-----------------------------------------------------------------------------
(* Response texts the decoders are called with                             *)

\* Longest response, in lines, built from a decoder's core lines.
MaxLines == 3

\* Longest ATI response, in lines: two identity lines and two more.
MaxAtiLines == 4

RECURSIVE Join(_, _)
Join(strs, sep) ==
  IF strs = <<>> THEN ""
  ELSE IF Len(strs) = 1 THEN strs[1]
  ELSE strs[1] \o sep \o Join(Tail(strs), sep)

\* Tokens a modem line can carry where a number is expected: the placeholder,
\* nothing, a word, a decimal, a doubly quoted and a padded number, zero.
BadTokens == { "-", "", "x", "1.5", "\"\"7\"\"", " 8 ", "0" }

\* Every truncation of a token list, as it is and with one token replaced.
TokenVariants(tokens) ==
  UNION { {SubSeq(tokens, 1, n)}
          \cup { [SubSeq(tokens, 1, n) EXCEPT ![p] = b] : p \in 1..n, b \in BadTokens }
          : n \in 1..Len(tokens) }

LineVariants(prefix, tokens) ==
  { prefix \o Join(v, ",") : v \in TokenVariants(tokens) }

\* Responses of up to maxLines lines of core, every line ended by eol.
Texts(core, maxLines, eols) ==
  { Join(ls, eol) \o eol : ls \in UNION { [1..n -> core] : n \in 0..maxLines },
                           eol \in eols }

\* One line followed by the final result code.
OneLine(lines) == { l \o "\r\n\r\nOK\r\n" : l \in lines }

AtiCore ==
  { "Quectel", "RM520N-GL", " Revision: RM520NGLAAR03A03M4G ",
    "Revision: A Revision: B", "xRevision: C", "OK", "ERROR", " " }

QspnTokens == << "\"I TIM\"", "\"TIM\"", "\"\"", "0", "\"22201\"" >>

QspnCore ==
  { "+QSPN: \"I TIM\",\"TIM\",\"\",0,\"22201\"",
    "+QSPN:\"vodafone IT\",\"voda IT\",\"\",0,\"2221099\"",
    "+QSPN: \"A\",\"B\",\"\",0,\"222\"",
    "+QSPN: \"A\",\"B\",\"\",0,\"22a01\"",
    "+QSPN: \"A",
    "B\",\"C\",\"\",1,\"310410\"" }

LteTokens ==
  << "\"LTE\"", "\"FDD\"", "222", "01", "328261F", "280", "275", "1", "4", "5",
     "BE3", "-99", "-14", "-66", "7", "4", "30", "-" >>

NrTokens ==
  << "\"NR5G-NSA\"", "222", "01", "920", "-96", "18", "-10", "648768", "78",
     "10", "1" >>

ServingcellCore ==
  { "+QENG: \"servingcell\",\"NOCONN\"",
    "+QENG: " \o Join(LteTokens, ","),
    "+QENG: " \o Join([LteTokens EXCEPT ![6] = "281", ![17] = "-"], ","),
    "+QENG: " \o Join(NrTokens, ","),
    "+QENG: " \o Join([NrTokens EXCEPT ![1] = "\"LTE-NR5G-NSA\"", ![6] = "18.5"], ","),
    "+QENG: " \o Join([NrTokens EXCEPT ![5] = "-96.5"], ",") }

QcaPccTokens ==
  << "\"PCC\"", "275", "75", "\"LTE BAND 1\"", "1", "280", "-99", "-14", "-67",
     "-4", "3", "\"LTE BAND 20\"", "6300", "9" >>

QcaSccTokens ==
  << "\"SCC\"", "1350", "100", "\"LTE BAND 3\"", "2", "240", "-95", "-18", "-68",
     "-10", "1", "\"LTE BAND 7\"", "3100", "9" >>

QcaCore ==
  { "+QCAINFO: " \o Join(SubSeq(QcaPccTokens, 1, 10), ","),
    "+QCAINFO: " \o Join(SubSeq(QcaSccTokens, 1, 13), ","),
    "+QCAINFO: " \o Join(SubSeq(QcaSccTokens, 1, 12), ","),
    "+QCAINFO: " \o Join(SubSeq(QcaSccTokens, 1, 9), ","),
    "+QCAINFO: \"SCC\",648768,10,\"NR5G BAND 78\",920",
    "+QCAINFO: \"SCC\",648768,10,\"NR5G BAND 78\"" }

NeighbourTokens ==
  << "\"LTE\"", "275", "280", "-14", "-99", "-67", "-", "-", "-" >>

NeighbourCore ==
  { "+QENG: \"neighbourcell intra\"," \o Join(NeighbourTokens, ","),
    "+QENG: \"neighbourcell inter\",\"LTE\",1350,240,-18,-95,-68,-,-,-,-,-",
    "+QENG: \"neighbourcell inter\",\"LTE\",1350,24x,-18,-95,-68",
    "+QENG: \"neighbourcell intra\",\"WCDMA\",10713,240,-18,-95,-68",
    "+QENG: \"neighbourcell\",\"LTE\",275,280,-14,-99,-67",
    "+QENG:\"neighbourcell inter\",\"LTE\",275,280,-14,-99,-67" }

PrefCore ==
  { "+QNWPREFCFG: \"mode_pref\",AUTO",
    "  +QNWPREFCFG:  \"mode_pref\", NR5G  ",
    "+QNWPREFCFG: \"lte_band\",1:3:7:20",
    "+QNWPREFCFG: \"nsa_nr5g_band\",78",
    "+QNWPREFCFG: mode_pref,WCDMA",
    "+QNWPREFCFG: \"lte_band\"," }

\* Further lines, met one at a time.
OddLines ==
  { "+QNWPREFCFG: \"\",78",
    "+QNWPREFCFG:\"mode_pref\",LTE",
    "+QENG: " \o Join([LteTokens EXCEPT ![6] = "x"], ","),
    "+QENG: " \o Join(SubSeq(LteTokens, 1, 16), ","),
    "+QSPN: \"A\",\"B\",\"\",0,\"2221\"",
    "+QSPN: \"Test\",\"T\",\"\",0,\"00101\"",
    "+QENG: \"neighbourcell intra\",\"LTE\",275,280,-14,-99",
    "+QCAINFO: " \o Join(SubSeq(QcaPccTokens, 1, 6), ","),
    "+QCAINFO: " \o Join(SubSeq(QcaSccTokens, 1, 7), ",") }

\* Single lines every decoder is called with, its own and the others'.
AnyCore ==
  AtiCore \cup QspnCore \cup ServingcellCore \cup QcaCore \cup NeighbourCore
  \cup PrefCore \cup OddLines

AnyTexts == Texts(AnyCore, 1, {"\n"})

AtiTexts == Texts(AtiCore, MaxAtiLines, {"\r\n"}) \cup AnyTexts

QspnTexts ==
  OneLine(LineVariants("+QSPN: ", QspnTokens))
  \cup Texts(QspnCore, MaxLines, {"\n", "\r\n"}) \cup AnyTexts

\* Responses of several LTE lines: two valid ones that differ in their PCI,
\* one with a channel number that is no integer, one a token short.
SeveralLte ==
  Texts({ "+QENG: " \o Join(LteTokens, ","),
          "+QENG: " \o Join([LteTokens EXCEPT ![6] = "281"], ","),
          "+QENG: " \o Join([LteTokens EXCEPT ![7] = "x"], ","),
          "+QENG: " \o Join(SubSeq(LteTokens, 1, 16), ",") },
        MaxLines, {"\n"})

\* Both backends hand over the lines of a response joined by "\n"; "\r\n"
\* is met in the responses of one line.
ServingcellTexts ==
  OneLine(LineVariants("+QENG: ", LteTokens))
  \cup SeveralLte
  \cup OneLine(LineVariants("+QENG: ", NrTokens))
  \cup Texts(ServingcellCore, MaxLines, {"\n"}) \cup AnyTexts

\* State codes: the six of the primary cell, and one beyond them.
StateCodes == {"0", "1", "2", "3", "4", "5", "6"}

\* Lines of every layout that decodes a state, with every state code.
StateLines ==
  { "+QCAINFO: " \o Join([SubSeq(tokens, 1, n) EXCEPT ![5] = code], ",") :
      tokens \in {QcaPccTokens, QcaSccTokens}, n \in {9, 10, 12, 13},
      code \in StateCodes }

QcainfoTexts ==
  OneLine(LineVariants("+QCAINFO: ", QcaPccTokens))
  \cup OneLine(LineVariants("+QCAINFO: ", QcaSccTokens))
  \cup OneLine(StateLines)
  \cup Texts(QcaCore, MaxLines, {"\n"}) \cup AnyTexts

\* Lines that name both localities, in either order.
BothLocalities ==
  { "+QENG: \"neighbourcell inter\",\"LTE\",1350,240,-18,-95,-68,intra",
    "+QENG: \"neighbourcell intra\",\"LTE\",275,280,-14,-99,-67,inter" }

NeighbourcellTexts ==
  OneLine(LineVariants("+QENG: \"neighbourcell intra\",", NeighbourTokens))
  \cup OneLine(LineVariants("+QENG: \"neighbourcell inter\",", NeighbourTokens))
  \cup OneLine(BothLocalities)
  \cup Texts(NeighbourCore, MaxLines, {"\n"}) \cup AnyTexts

PrefTexts == Texts(PrefCore, MaxLines, {"\n", "\r\n"}) \cup AnyTexts

-----------------------------------------------------------------------------
(* One call of a decoder                                                   *)

ParseAti ==
  /\ op = "none"
  /\ UNCHANGED programVars
  /\ \E response \in AtiTexts :
       /\ op' = "parse_ati"
       /\ arg' = response
       /\ ret' = parse_ati(response)

ParseQspn ==
  /\ op = "none"
  /\ UNCHANGED programVars
  /\ \E response \in QspnTexts :
       /\ op' = "parse_qspn"
       /\ arg' = response
       /\ ret' = parse_qspn(response)

ParseQengServingcell ==
  /\ op = "none"
  /\ UNCHANGED programVars
  /\ \E response \in ServingcellTexts :
       /\ op' = "parse_qeng_servingcell"
       /\ arg' = response
       /\ ret' = parse_qeng_servingcell(response)

ParseQcainfo ==
  /\ op = "none"
  /\ UNCHANGED programVars
  /\ \E response \in QcainfoTexts :
       /\ op' = "parse_qcainfo"
       /\ arg' = response
       /\ ret' = parse_qcainfo(response)

ParseQengNeighbourcell ==
  /\ op = "none"
  /\ UNCHANGED programVars
  /\ \E response \in NeighbourcellTexts :
       /\ op' = "parse_qeng_neighbourcell"
       /\ arg' = response
       /\ ret' = parse_qeng_neighbourcell(response)

ParseQnwprefcfg ==
  /\ op = "none"
  /\ UNCHANGED programVars
  /\ \E response \in PrefTexts :
       /\ op' = "parse_qnwprefcfg"
       /\ arg' = response
       /\ ret' = parse_qnwprefcfg(response)

\* Most quote characters on one side of a raw value.
MaxQuotes == 2

\* n double quotes.
RECURSIVE Quotes(_)
Quotes(n) == IF n = 0 THEN "" ELSE "\"" \o Quotes(n - 1)

\* Raw comma-separated values: a text between 0..MaxQuotes quotes on
\* either side, in whitespace or not.
RawValues ==
  { l \o Quotes(i) \o inner \o Quotes(j) \o r :
      l \in {"", " "}, r \in {"", " ", "\t\r"},
      i \in 0..MaxQuotes, j \in 0..MaxQuotes,
      inner \in {"", "7", "LTE BAND 3", " a ", "a\"b", "-"} }

CleanValue ==
  /\ op = "none"
  /\ UNCHANGED programVars
  /\ \E val \in RawValues :
       /\ op' = "_clean_value"
       /\ arg' = val
       /\ ret' = clean_value(val)

NextParser ==
  \/ CleanValue
  \/ ParseAti
  \/ ParseQspn
  \/ ParseQengServingcell
  \/ ParseQcainfo
  \/ ParseQengNeighbourcell
  \/ ParseQnwprefcfg

SpecParser == Init /\ [][NextParser]_vars

-----------------------------------------------------------------------------
(* Properties of the decoders                                              *)

OpsParser ==
  { "parse_ati", "parse_qspn", "parse_qeng_servingcell", "parse_qcainfo",
    "parse_qeng_neighbourcell", "parse_qnwprefcfg" }

\* The token lists of the lines of a response that start, once stripped, with
\* a prefix of cut - 1 characters and a separator; in input order.
PartsOfLines(response, prefix, cut) ==
  LET lines == SplitLines(response)
      marked(l) == StartsWith(Strip(l), prefix)
      kept == SelectSeq(lines, marked)
  IN  [ i \in 1..Len(kept) |-> CleanParts(Strip(From(Strip(kept[i]), cut))) ]

\* The token lists parse_qcainfo builds a component from.
QcaKept(response) ==
  LET IsLong(parts) == Len(parts) >= 5
  IN  SelectSeq(PartsOfLines(response, "+QCAINFO:", 10), IsLong)

\* C1: an SCC line of exactly 5 tokens gives a component with the PCI of
\* token 4 and no state, signal or uplink value; an SCC line of exactly 13
\* tokens gives state from token 4, PCI from token 5, RSRP, RSRQ and SINR
\* from tokens 6, 7 and 9 and the uplink fields from tokens 10, 11 and 12.
C1_SccLayouts ==
  op = "parse_qcainfo" =>
    /\ ~IsRaise(ret)
    /\ LET kept == QcaKept(arg)
       IN
       /\ Len(ret.value) = Len(kept)
       /\ \A k \in 1..Len(kept) :
         LET parts == kept[k]
             c == ret.value[k]
         IN  Part(parts, 0) = "SCC" =>
               /\ c.component_type = "SCC"
               /\ c.earfcn = OrElse(parse_int(Part(parts, 1)), 0)
               /\ c.bandwidth_raw = OrElse(parse_int(Part(parts, 2)), 0)
               /\ c.band_name = Part(parts, 3)
               /\ Len(parts) = 5 =>
                    /\ c.pci = OrElse(parse_int(Part(parts, 4)), 0)
                    /\ c.state = None
                    /\ c.rsrp = None /\ c.rsrq = None /\ c.sinr = None
                    /\ c.ul_configured = None /\ c.ul_band = None
                    /\ c.ul_earfcn = None
               /\ Len(parts) = 13 =>
                    /\ c.state = Some(scell_state(Part(parts, 4)))
                    /\ c.pci = OrElse(parse_int(Part(parts, 5)), 0)
                    /\ c.rsrp = parse_int(Part(parts, 6))
                    /\ c.rsrq = parse_int(Part(parts, 7))
                    /\ c.sinr = parse_float(Part(parts, 9))
                    /\ c.ul_configured = parse_int(Part(parts, 10))
                    /\ c.ul_band = (IF Part(parts, 11) = "-" THEN None
                                    ELSE Some(Part(parts, 11)))
                    /\ c.ul_earfcn = parse_int(Part(parts, 12))

\* C1 witness: one response carries a 5-token and a 13-token SCC line, and
\* the components hold the PCI of the first and the uplink of the second.
C1_Witness ==
  /\ op = "parse_qcainfo"
  /\ ~IsRaise(ret)
  /\ LET kept == QcaKept(arg)
     IN
     /\ Len(ret.value) = Len(kept)
     /\ \E i, j \in 1..Len(ret.value) :
       /\ Part(kept[i], 0) = "SCC" /\ Len(kept[i]) = 5
       /\ ret.value[i].pci = 920 /\ ret.value[i].state = None
       /\ Part(kept[j], 0) = "SCC" /\ Len(kept[j]) = 13
       /\ ret.value[j].pci = 240
       /\ ret.value[j].state = Some("Active")
       /\ ret.value[j].rsrp = Some(-95)
       /\ ret.value[j].sinr = Some(Flt(-10))
       /\ ret.value[j].ul_configured = Some(1)
       /\ ret.value[j].ul_band = Some("LTE BAND 7")
       /\ ret.value[j].ul_earfcn = Some(3100)

\* The token lists of the +QENG: lines of a response.
QengParts(response) == PartsOfLines(response, "+QENG:", 7)

\* The tokens at the indices idxs are there and int() takes each of them.
AllInt(parts, idxs) ==
  \A i \in idxs : i < Len(parts) /\ IsSome(PyInt(Part(parts, i)))

\* The tokens at the indices idxs are there and each of them is a number.
AllNumeric(parts, idxs) ==
  \A i \in idxs : i < Len(parts) /\ IsSome(PyFloat(Part(parts, i)))

\* First token exactly LTE, 17 tokens or more, integer MCC, MNC, PCI,
\* EARFCN and band.
ValidLteLine(parts) ==
  /\ Len(parts) >= 17
  /\ Part(parts, 0) = "LTE"
  /\ AllInt(parts, {2, 3, 5, 6, 7})

\* First token holding NR5G-NSA, 10 tokens or more, and the nine fields
\* acceptable: SINR a number and the eight others integers.
ValidNrLine(parts) ==
  /\ Len(parts) >= 10
  /\ Contains(Part(parts, 0), "NR5G-NSA")
  /\ AllInt(parts, {1, 2, 3, 4, 6, 7, 8, 9})
  /\ AllNumeric(parts, {5})

\* The same with every one of the nine fields only required to be a number.
NumericNrLine(parts) ==
  /\ Len(parts) >= 10
  /\ Contains(Part(parts, 0), "NR5G-NSA")
  /\ AllNumeric(parts, 1..9)

\* C5 as stated: the LTE cell is returned exactly when some line is a valid
\* LTE line, and the NR cell exactly when some line is an NR5G-NSA line of
\* 10 tokens or more whose nine fields are all numeric.
C5_AsStated ==
  op = "parse_qeng_servingcell" =>
    /\ ~IsRaise(ret)
    /\ LET lines == QengParts(arg)
       IN  /\ IsSome(ret.value[1]) <=>
                \E k \in 1..Len(lines) : ValidLteLine(lines[k])
           /\ IsSome(ret.value[2]) <=>
                \E k \in 1..Len(lines) : NumericNrLine(lines[k])

\* C5 amended: the LTE cell is returned exactly when some line is a valid
\* LTE line, and the NR cell exactly when some line is an NR5G-NSA line of
\* 10 tokens or more whose SINR is a number and whose eight other fields
\* are integers; either result is there or not whatever the other is.
C5_Amended ==
  op = "parse_qeng_servingcell" =>
    /\ ~IsRaise(ret)
    /\ LET lines == QengParts(arg)
       IN  /\ IsSome(ret.value[1]) <=>
                \E k \in 1..Len(lines) : ValidLteLine(lines[k])
           /\ IsSome(ret.value[2]) <=>
                \E k \in 1..Len(lines) : ValidNrLine(lines[k])

\* C5 witness: a response with a valid LTE line and an NR5G-NSA line whose
\* RSRP is a decimal gives the LTE cell and no NR cell.
C5_Witness ==
  /\ op = "parse_qeng_servingcell"
  /\ ~IsRaise(ret)
  /\ IsSome(ret.value[1])
  /\ ret.value[1].some.pci = 280
  /\ IsNone(ret.value[2])
  /\ LET lines == QengParts(arg)
     IN  \E k \in 1..Len(lines) :
           /\ NumericNrLine(lines[k])
           /\ Part(lines[k], 4) = "-96.5"

\* C8: whatever the lines and tokens of the response, each of the six
\* decoders returns a value; none of them raises.
C8_NoDecoderRaises ==
  op \in OpsParser => ~IsRaise(ret) /\ DOMAIN ret = {"value"}

\* C8 witness: an LTE line whose try block raises went through
\* parse_qeng_servingcell, which returned its pair all the same.
C8_Witness ==
  /\ op = "parse_qeng_servingcell"
  /\ ~IsRaise(ret)
  /\ LET lines == QengParts(arg)
     IN  \E k \in 1..Len(lines) :
           /\ Len(lines[k]) >= 17
           /\ Part(lines[k], 0) = "LTE"
           /\ IsRaise(LteBody(lines[k]))
  /\ ret.value = <<None, None>>

\* The <<key, value>> pairs of the well-formed lines of a response, in input
\* order: the lines parse_qnwprefcfg stores an entry for.
PrefEntries(response) ==
  LET lines == SplitLines(response)
      match(l) == PrefMatch(Strip(From(Strip(l), 13)))
      wellFormed(l) == StartsWith(Strip(l), "+QNWPREFCFG:") /\ IsSome(match(l))
      kept == SelectSeq(lines, wellFormed)
  IN  [ i \in 1..Len(kept) |-> << match(kept[i]).some[1], Strip(match(kept[i]).some[2]) >> ]

\* The lines of a response with lines i and i + 1 exchanged, as a response.
SwapLines(response, i) ==
  LET lines == SplitLines(response)
  IN  Join([ k \in 1..Len(lines) |->
               IF k = i THEN lines[i + 1] ELSE IF k = i + 1 THEN lines[i] ELSE lines[k] ],
           "\n")

\* Two mappings with the same keys and the same value for each.
SameDict(a, b) == DOMAIN a = DOMAIN b /\ \A k \in DOMAIN a : a[k] = b[k]

\* C9: the mapping has exactly the keys of the well-formed lines, each with
\* the value of the last well-formed line that carries it, and exchanging
\* two neighbouring lines that do not carry the same key changes nothing.
C9_LastValueWins ==
  op = "parse_qnwprefcfg" =>
    /\ ~IsRaise(ret)
    /\ LET es == PrefEntries(arg)
       IN  /\ DOMAIN ret.value = { es[i][1] : i \in 1..Len(es) }
           /\ \A i \in 1..Len(es) :
                (\A j \in (i + 1)..Len(es) : es[j][1] # es[i][1])
                  => ret.value[es[i][1]] = es[i][2]
    /\ LET lines == SplitLines(arg)
       IN  \A i \in 1..(Len(lines) - 1) :
             LET a == PrefEntries(lines[i])
                 b == PrefEntries(lines[i + 1])
             IN  (a # <<>> /\ b # <<>> => a[1][1] # b[1][1])
                   => SameDict(parse_qnwprefcfg(SwapLines(arg, i)).value, ret.value)

\* C9 witness: a key set twice around another key holds its later value.
C9_Witness ==
  /\ op = "parse_qnwprefcfg"
  /\ ~IsRaise(ret)
  /\ LET es == PrefEntries(arg)
     IN  /\ Len(es) = 3
         /\ es[1] = <<"mode_pref", "AUTO">>
         /\ es[2][1] = "lte_band"
         /\ es[3] = <<"mode_pref", "NR5G">>
  /\ DOMAIN ret.value = {"mode_pref", "lte_band"}
  /\ ret.value["mode_pref"] = "NR5G"
  /\ ret.value["lte_band"] = "1:3:7:20"

\* C10 as stated: parse_ati returns None exactly when fewer than 3 usable
\* lines are left; otherwise manufacturer and model are the first two usable
\* lines and revision is the text that follows "Revision:" on the first
\* usable line from the third on that starts with it.
C10_AsStated ==
  op = "parse_ati" =>
    /\ ~IsRaise(ret)
    /\ LET lines == UsableLines(SplitLines(arg))
       IN  /\ IsNone(ret.value) <=> Len(lines) < 3
           /\ Len(lines) >= 3 =>
                /\ ret.value.some.manufacturer = lines[1]
                /\ ret.value.some.model = lines[2]
                /\ \A i \in 3..Len(lines) :
                     /\ StartsWith(lines[i], "Revision:")
                     /\ \A j \in 3..(i - 1) : ~StartsWith(lines[j], "Revision:")
                     => ret.value.some.revision = Strip(From(lines[i], 9))

-----------------------------------------------------------------------------
(* Further properties of the frequency conversions (under SpecFreq)        *)

\* C11: the frequency given to an NR-ARFCN n that a band row holds is the
\* global raster value: 5 kHz x n below 600000, 3000000 kHz + 15 kHz x
\* (n - 600000) from 600000 to 2016666, and 24250080 kHz + 60 kHz x
\* (n - 2016667) from 2016667 on.
C11_GlobalRaster ==
  (op \in OpsNr /\ RowsHolding(TableOf(op), arg) # {}) =>
    /\ IsSome(ret[1])
    /\ arg < 600000 => ret[1].some = 5 * arg
    /\ (600000 <= arg /\ arg <= 2016666)
         => ret[1].some = 3000000 + 15 * (arg - 600000)
    /\ arg >= 2016667 => ret[1].some = 24250080 + 60 * (arg - 2016667)

\* C11 witness: NR-ARFCN 2070833, in the 60 kHz domain, is at 27500.04 MHz.
C11_Witness ==
  /\ op = "legacy.nrarfcn_to_mhz"
  /\ arg = 2070833
  /\ RowsHolding(LEGACY_NR5G_BANDS, arg) # {}
  /\ ret = <<Some(27500040), Some(257)>>

-----------------------------------------------------------------------------
(* quectel/frequency.py: bandwidth labels; quectel/models.py: band number  *)

\* NR5G_BANDWIDTH index -> label; the current module stops at index 12.
NR5G_BW_INDEX_MAP ==
  [ k \in 0..12 |->
      << "5 MHz", "10 MHz", "15 MHz", "20 MHz", "25 MHz", "30 MHz", "40 MHz",
         "50 MHz", "60 MHz", "70 MHz", "80 MHz", "90 MHz", "100 MHz" >>[k + 1] ]

LEGACY_NR5G_BW_INDEX_MAP ==
  [ k \in 0..14 |->
      << "5 MHz", "10 MHz", "15 MHz", "20 MHz", "25 MHz", "30 MHz", "40 MHz",
         "50 MHz", "60 MHz", "70 MHz", "80 MHz", "90 MHz", "100 MHz",
         "200 MHz", "400 MHz" >>[k + 1] ]

\* A lookup whose placeholder leaves the index out, which is not the code's.
GetLabelUntagged(map, index) ==
  IF index \in DOMAIN map THEN map[index] ELSE "?"

\* map.get(index, f"? (idx {index})")
GetLabel(map, index) ==
  IF index \in DOMAIN map THEN map[index]
  ELSE "? (idx " \o IntText(index) \o ")"

format_nr5g_bandwidth(index) == GetLabel(NR5G_BW_INDEX_MAP, index)

legacy_format_nr5g_bandwidth(index) == GetLabel(LEGACY_NR5G_BW_INDEX_MAP, index)

\* Largest bandwidth index, in absolute value, the formatters are given.
MaxIndex == 40

FormatNr5gBandwidth ==
  /\ op = "none"
  /\ UNCHANGED programVars
  /\ \E index \in (0 - MaxIndex)..MaxIndex :
       /\ op' = "format_nr5g_bandwidth"
       /\ arg' = index
       /\ ret' = format_nr5g_bandwidth(index)

LegacyFormatNr5gBandwidth ==
  /\ op = "none"
  /\ UNCHANGED programVars
  /\ \E index \in (0 - MaxIndex)..MaxIndex :
       /\ op' = "legacy.format_nr5g_bandwidth"
       /\ arg' = index
       /\ ret' = legacy_format_nr5g_bandwidth(index)

\* CarrierComponent.band_number without the test on the number of tokens,
\* which is not the code's.
band_number_any_length(band_name) ==
  LET parts == SplitWs(band_name)
  IN  IF Len(parts) >= 1 /\ IsSome(PyInt(parts[Len(parts)]))
      THEN PyInt(parts[Len(parts)]).some
      ELSE 0

\* CarrierComponent.band_number: int(parts[-1]) of a label of 3 tokens or
\* more, 0 for a shorter label and when int() raises ValueError.
band_number(band_name) ==
  LET parts == SplitWs(band_name)
  IN  IF Len(parts) >= 3
      THEN IF IsSome(PyInt(parts[Len(parts)]))
           THEN PyInt(parts[Len(parts)]).some
           ELSE 0
      ELSE 0

\* Most words, empty ones included, of a band label.
MaxLabelWords == 3

LabelWords == { "", "LTE", "NR5G", "BAND", "3", "78", "n78", "-1" }

\* Labels of up to MaxLabelWords words, one blank between two words.
BandLabels ==
  { Join(ws, " ") : ws \in UNION { [1..n -> LabelWords] : n \in 0..MaxLabelWords } }

BandNumber ==
  /\ op = "none"
  /\ UNCHANGED programVars
  /\ \E band_name \in BandLabels :
       /\ op' = "band_number"
       /\ arg' = band_name
       /\ ret' = band_number(band_name)

NextFormat ==
  \/ FormatNr5gBandwidth
  \/ LegacyFormatNr5gBandwidth
  \/ BandNumber

SpecFormat == Init /\ [][NextFormat]_vars

-----------------------------------------------------------------------------
(* Properties of the labels and of the band number (under SpecFormat)      *)

OpsBandwidth == {"format_nr5g_bandwidth", "legacy.format_nr5g_bandwidth"}

\* The bandwidths, in MHz, of the indices 0..14.
Staircase == << 5, 10, 15, 20, 25, 30, 40, 50, 60, 70, 80, 90, 100, 200, 400 >>

-----------------------------------------------------------------------------
(* Further properties of the classifiers (under SpecThresholds)            *)

\* C13: for an integer SINR s, sinr_to_beep_count is 6 when s >= 19, 5 when
\* s = 18, 4 when s = 17, 3 when s = 16, 2 when s is 14 or 15, 1 when s is
\* 12 or 13 and 0 when s < 12; None gives 0; the result is always in 0..6.
C13_IntegerBeepCounts ==
  op = "sinr_to_beep_count" =>
    /\ ret \in 0..6
    /\ arg = None => ret = 0
    /\ \A s \in (0 - MaxSinrTenths \div 10)..(MaxSinrTenths \div 10) :
         arg = Some(Flt(s)) =>
           ret = CASE s >= 19 -> 6
                   [] s = 18 -> 5
                   [] s = 17 -> 4
                   [] s = 16 -> 3
                   [] s \in {14, 15} -> 2
                   [] s \in {12, 13} -> 1
                   [] OTHER -> 0

\* C13 witness: the integer 17 was given 4 beeps.
C13_Witness ==
  /\ op = "sinr_to_beep_count"
  /\ arg = Some(Flt(17))
  /\ ret = 4

-----------------------------------------------------------------------------
(* Further properties of the decoders (under SpecParser)                   *)

\* NetworkInfo.mcc_mnc: f"{self.mcc}-{self.mnc:02d}"
mcc_mnc(info) ==
  IntText(info.mcc) \o "-" \o (IF info.mnc \in 0..9 THEN "0" ELSE "") \o IntText(info.mnc)

\* The digit string of the +QSPN line parse_qspn matched.
QspnDigits(response) == QspnSearch(response, 0).some[3]

\* C14 as stated: every record parse_qspn returns has mcc = the integer of
\* the first three digits of the digit string and mnc = the integer of the
\* digits that remain.
C14_AsStated ==
  (op = "parse_qspn" /\ ~IsRaise(ret)) =>
    (IsSome(ret.value) =>
       LET digits == QspnDigits(arg)
       IN  /\ ret.value.some.mcc = PyInt(SubSeq(digits, 1, 3)).some
           /\ Len(digits) > 3 => ret.value.some.mnc = PyInt(From(digits, 3)).some)

\* C14 amended: a record of a digit string of 5 digits or more has mcc =
\* the integer of its first three digits and mnc = the integer of the rest
\* (22201 gives 222 and 1, displayed 222-01); a record of a shorter digit
\* string has mcc = 0 and mnc = 0.
C14_Amended ==
  (op = "parse_qspn" /\ ~IsRaise(ret)) =>
    (IsSome(ret.value) =>
       LET digits == QspnDigits(arg)
           info == ret.value.some
       IN  /\ Len(digits) >= 5 =>
                /\ info.mcc = PyInt(SubSeq(digits, 1, 3)).some
                /\ info.mnc = PyInt(From(digits, 3)).some
           /\ Len(digits) < 5 => info.mcc = 0 /\ info.mnc = 0
           /\ digits = "22201" =>
                info.mcc = 222 /\ info.mnc = 1 /\ mcc_mnc(info) = "222-01")

\* C14 witness: a +QSPN line with the 4 digits 2221 gave a record with
\* mcc 0 and mnc 0.
C14_Witness ==
  /\ op = "parse_qspn"
  /\ ~IsRaise(ret)
  /\ IsSome(ret.value)
  /\ QspnDigits(arg) = "2221"
  /\ ret.value.some.mcc = 0
  /\ ret.value.some.mnc = 0

Inside(table, i, j) ==
  /\ table[j][2] <= table[i][2]
  /\ table[i][3] <= table[j][3]
  /\ table[i][3] - table[i][2] < table[j][3] - table[j][2]

\* C16 as stated: a row of NR5G_BANDS that lies inside a broader row is
\* listed before it, so the band nrarfcn_to_mhz returns for an NR-ARFCN is
\* never that of a row when a narrower row inside that row holds the
\* NR-ARFCN too.
C16_NarrowestRowWins ==
  (op \in OpsNr /\ RowsHolding(TableOf(op), arg) # {}) =>
    LET table == TableOf(op)
    IN  \A j \in RowsHolding(table, arg) :
          ret[2] = Some(table[j][1]) =>
            \A i \in RowsHolding(table, arg) : ~ Inside(table, i, j)

\* C17: the number of tokens of an SCC line selects the layout.  With 9 or
\* 12 tokens the uplink fields come from tokens 6, 7 and 8; with 12 tokens
\* RSRP, RSRQ and SINR come from tokens 9, 10 and 11 and with 9 tokens they
\* are absent; with 13 tokens or more RSRP, RSRQ and SINR come from tokens
\* 6, 7 and 9 and the uplink fields from tokens 10, 11 and 12.  No layout
\* reads a token the line does not have: every line of 5 tokens or more
\* gives a component and no IndexError is raised or swallowed.
C17_LayoutByTokenCount ==
  op = "parse_qcainfo" =>
    /\ ~IsRaise(ret)
    /\ LET kept == QcaKept(arg)
       IN
       /\ Len(ret.value) = Len(kept)
       /\ \A k \in 1..Len(kept) :
            LET parts == kept[k]
                n == Len(parts)
                c == ret.value[k]
                Ul(i) == IF parts[i + 1] = "-" THEN None ELSE Some(parts[i + 1])
            IN  parts[1] = "SCC" =>
                  /\ n \in {9, 12} =>
                       /\ c.ul_configured = parse_int(parts[7])
                       /\ c.ul_band = Ul(7)
                       /\ c.ul_earfcn = parse_int(parts[9])
                  /\ n = 9 =>
                       c.rsrp = None /\ c.rsrq = None /\ c.sinr = None
                  /\ n = 12 =>
                       /\ c.rsrp = parse_int(parts[10])
                       /\ c.rsrq = parse_int(parts[11])
                       /\ c.sinr = parse_float(parts[12])
                  /\ n >= 13 =>
                       /\ c.rsrp = parse_int(parts[7])
                       /\ c.rsrq = parse_int(parts[8])
                       /\ c.sinr = parse_float(parts[10])
                       /\ c.ul_configured = parse_int(parts[11])
                       /\ c.ul_band = Ul(11)
                       /\ c.ul_earfcn = parse_int(parts[13])
                  /\ \A i \in QcaReads(QcaLayout(parts)) : i < n

\* C17 witness: one response carries a 12-token and a 13-token SCC line; the
\* first has its uplink channel from token 8 and its RSRP from token 9, the
\* second its RSRP from token 6 and its uplink channel from token 12.
C17_Witness ==
  /\ op = "parse_qcainfo"
  /\ ~IsRaise(ret)
  /\ Len(ret.value) = 2
  /\ LET kept == QcaKept(arg)
     IN  /\ Len(kept) = 2
         /\ Len(kept[1]) = 12 /\ Len(kept[2]) = 13
         /\ kept[1][1] = "SCC" /\ kept[2][1] = "SCC"
  /\ ret.value[1].ul_earfcn = Some(-68) /\ ret.value[1].rsrp = Some(-10)
  /\ ret.value[2].rsrp = Some(-95) /\ ret.value[2].ul_earfcn = Some(3100)

\* The names of the primary cell's states 0..5 and of the secondary cell's
\* states 0..2, by state code.
PrimaryNames ==
  [ code \in {"0", "1", "2", "3", "4", "5"} |->
      CASE code = "0" -> "Idle"
        [] code = "1" -> "Registered"
        [] code = "2" -> "Searching"
        [] code = "3" -> "Denied"
        [] code = "4" -> "Unknown"
        [] code = "5" -> "Roaming" ]

SecondaryNames ==
  [ code \in {"0", "1", "2"} |->
      CASE code = "0" -> "Deconfigured"
        [] code = "1" -> "Inactive"
        [] code = "2" -> "Active" ]

\* The name of a state code in an enumeration, 'N/A' for a code outside it.
NameIn(names, code) == IF code \in DOMAIN names THEN names[code] ELSE "N/A"

\* C18: in every component of parse_qcainfo that has a state, the state of
\* a PCC component is the primary name of token 4 (Idle, Registered,
\* Searching, Denied, Unknown, Roaming) and the state of an SCC component
\* the secondary name of token 4 (Deconfigured, Inactive, Active); a code
\* outside the enumeration gives 'N/A', so SCC codes 3, 4 and 5 do.  A PCC
\* component never has a secondary name, an SCC component never a primary
\* one.  A PCC line of 10 tokens or more and an SCC line of 9, 12, 13 or
\* more tokens have a state.
C18_StateEnumerations ==
  op = "parse_qcainfo" =>
    /\ ~IsRaise(ret)
    /\ LET kept == QcaKept(arg)
       IN
       /\ Len(ret.value) = Len(kept)
       /\ \A k \in 1..Len(kept) :
            LET parts == kept[k]
                n == Len(parts)
                c == ret.value[k]
                primary == { PrimaryNames[x] : x \in DOMAIN PrimaryNames }
                secondary == { SecondaryNames[x] : x \in DOMAIN SecondaryNames }
            IN  /\ c.component_type = parts[1]
                /\ c.component_type = "PCC" =>
                     /\ n >= 10 => c.state = Some(NameIn(PrimaryNames, parts[5]))
                     /\ n < 10 => c.state = None
                     /\ \A s \in secondary : c.state # Some(s)
                /\ c.component_type = "SCC" =>
                     /\ (n = 9 \/ n >= 12) =>
                          c.state = Some(NameIn(SecondaryNames, parts[5]))
                     /\ ~(n = 9 \/ n >= 12) => c.state = None
                     /\ \A s \in primary : c.state # Some(s)
                     /\ (n = 9 \/ n >= 12) /\ parts[5] \in {"3", "4", "5"} =>
                          c.state = Some("N/A")

\* C18 witness: an SCC line with state code 3 gave a component whose state
\* is 'N/A', not 'Denied'.
C18_Witness ==
  /\ op = "parse_qcainfo"
  /\ ~IsRaise(ret)
  /\ Len(ret.value) = 1
  /\ LET kept == QcaKept(arg)
     IN  /\ Len(kept) = 1
         /\ kept[1][1] = "SCC" /\ kept[1][5] = "3" /\ Len(kept[1]) = 13
  /\ ret.value[1].component_type = "SCC"
  /\ ret.value[1].state = Some("N/A")

\* C18 witness, the primary side: a PCC line with state code 5 gave a
\* component whose state is 'Roaming'.
C18_WitnessPrimary ==
  /\ op = "parse_qcainfo"
  /\ ~IsRaise(ret)
  /\ Len(ret.value) = 1
  /\ ret.value[1].component_type = "PCC"
  /\ ret.value[1].state = Some("Roaming")

\* C19 as stated: the band number of a label is the integer value of its
\* final whitespace-separated token, whatever the number of tokens; 'BAND 3'
\* gives 3.
C19_AsStated ==
  op = "band_number" =>
    LET parts == SplitWs(arg)
    IN  /\ (Len(parts) >= 1 /\ IsSome(PyInt(parts[Len(parts)]))) =>
             ret = PyInt(parts[Len(parts)]).some
        /\ arg = "BAND 3" => ret = 3

\* C19 amended: the band number of a label of three whitespace-separated
\* tokens or more is the integer value of its final token when that token
\* is an integer; it is 0 for a label of fewer than three tokens and for a
\* final token that is not an integer.  'LTE BAND 3' gives 3, 'NR5G BAND
\* 78' gives 78, 'BAND 3' gives 0.
C19_Amended ==
  op = "band_number" =>
    LET parts == SplitWs(arg)
        n == Len(parts)
    IN  /\ (n >= 3 /\ IsSome(PyInt(parts[n]))) => ret = PyInt(parts[n]).some
        /\ (n >= 3 /\ IsNone(PyInt(parts[n]))) => ret = 0
        /\ n < 3 => ret = 0
        /\ arg = "LTE BAND 3" => ret = 3
        /\ arg = "NR5G BAND 78" => ret = 78
        /\ arg = "BAND 3" => ret = 0

\* C19 witness: the two-token label 'BAND 3' was given the band number 0.
C19_Witness ==
  /\ op = "band_number"
  /\ arg = "BAND 3"
  /\ Len(SplitWs(arg)) = 2
  /\ ret = 0

\* C19 witness, three tokens: 'NR5G BAND 78' was given the band number 78.
C19_WitnessThree ==
  /\ op = "band_number"
  /\ arg = "NR5G BAND 78"
  /\ ret = 78

\* The tokens of a stripped line of a neighbourcell response: the line
\* without the type token '+QENG: "neighbourcell intra",' or '... inter",'
\* and without double quotes, cut at the commas, every token stripped.  The
\* first token is the technology.
NeighbourTokensOf(line) ==
  LET content == Replace(Replace(Replace(line,
                   "+QENG: \"neighbourcell intra\",", ""),
                   "+QENG: \"neighbourcell inter\",", ""),
                   "\"", "")
      ps == Split(content, ",")
  IN  [ i \in 1..Len(ps) |-> Strip(ps[i]) ]

\* The stripped lines of a response that contain 'neighbourcell', whose
\* technology token is LTE and that have at least `fields` tokens after the
\* technology token.
NeighbourEligible(response, fields) ==
  LET lines == SplitLines(response)
      stripped == [ i \in 1..Len(lines) |-> Strip(lines[i]) ]
      Eligible(line) ==
        /\ Contains(line, "neighbourcell")
        /\ LET tokens == NeighbourTokensOf(line)
           IN  tokens[1] = "LTE" /\ Len(tokens) >= 1 + fields
  IN  SelectSeq(stripped, Eligible)

\* C20 as stated: parse_qeng_neighbourcell gives a record for a line only
\* if the line contains 'neighbourcell', its technology token is LTE and at
\* least 6 fields follow the type and technology tokens; so there are no
\* more records than such lines.
C20_AsStated ==
  op = "parse_qeng_neighbourcell" =>
    /\ ~IsRaise(ret)
    /\ Len(ret.value) <= Len(NeighbourEligible(arg, 6))

\* C20 amended: parse_qeng_neighbourcell gives a record for a line exactly
\* if the line contains 'neighbourcell' and 'intra' or 'inter', its
\* technology token is LTE, at least 5 fields follow the type and
\* technology tokens and the first two of them are integers; the records
\* are in line order, the locality of a record is 'intra' if its line
\* contains 'intra' and 'inter' otherwise, and its channel, cell identity,
\* RSRQ, RSRP and RSSI are the five fields, an RSRQ, RSRP or RSSI that is
\* not an integer being 0.
C20_Amended ==
  op = "parse_qeng_neighbourcell" =>
    /\ ~IsRaise(ret)
    /\ LET Emits(line) ==
             /\ Contains(line, "intra") \/ Contains(line, "inter")
             /\ LET tokens == NeighbourTokensOf(line)
                IN  IsSome(PyInt(tokens[2])) /\ IsSome(PyInt(tokens[3]))
           emitting == SelectSeq(NeighbourEligible(arg, 5), Emits)
       IN  /\ Len(ret.value) = Len(emitting)
           /\ \A k \in 1..Len(emitting) :
                LET line == emitting[k]
                    parts == NeighbourTokensOf(line)
                    cell == ret.value[k]
                IN  /\ cell.technology = "LTE"
                    /\ cell.cell_type = (IF Contains(line, "intra")
                                         THEN "intra" ELSE "inter")
                    /\ cell.earfcn = PyInt(parts[2]).some
                    /\ cell.pci = PyInt(parts[3]).some
                    /\ cell.rsrq = OrElse(parse_int(parts[4]), 0)
                    /\ cell.rsrp = OrElse(parse_int(parts[5]), 0)
                    /\ cell.rssi = OrElse(parse_int(parts[6]), 0)

\* C20 witness: a line with exactly 5 fields after the type and technology
\* tokens gave a record.
C20_Witness ==
  /\ op = "parse_qeng_neighbourcell"
  /\ ~IsRaise(ret)
  /\ Len(NeighbourEligible(arg, 5)) = 1
  /\ Len(NeighbourEligible(arg, 6)) = 0
  /\ Len(ret.value) = 1
  /\ ret.value[1].cell_type = "inter"
  /\ ret.value[1].rssi = -67

\* The lines of NeighbourEligible(response, 5) that name a locality.
NeighbourLocal(response) ==
  LET Local(line) == Contains(line, "intra") \/ Contains(line, "inter")
  IN  SelectSeq(NeighbourEligible(response, 5), Local)

\* C21 as stated: a carrier-aggregation line and a neighbour-cell line with
\* a channel number that is not an integer give no record, so there are no
\* more records than lines with an integer channel number.
C21_AsStated ==
  /\ op = "parse_qcainfo" =>
       /\ ~IsRaise(ret)
       /\ LET IntChannel(parts) == IsSome(PyInt(parts[2]))
          IN  Len(ret.value) <= Len(SelectSeq(QcaKept(arg), IntChannel))
  /\ op = "parse_qeng_neighbourcell" =>
       /\ ~IsRaise(ret)
       /\ LET IntChannel(line) == IsSome(PyInt(NeighbourTokensOf(line)[2]))
          IN  Len(ret.value) <= Len(SelectSeq(NeighbourLocal(arg), IntChannel))

\* C21 amended: a neighbour-cell line whose channel number or PCI is not an
\* integer gives no record, and the lines after it are still decoded; an
\* RSRQ, RSRP or RSSI that is not an integer does not drop the line but is
\* recorded as 0.  A carrier-aggregation line of 5 tokens or more is never
\* dropped for a field that is not a number: its channel number, bandwidth
\* and PCI are then recorded as 0 and its RSRP, RSRQ and SINR as absent.  No
\* error leaves either decoder.
C21_Amended ==
  /\ op = "parse_qeng_neighbourcell" =>
       /\ ~IsRaise(ret)
       /\ LET IntPair(line) ==
                LET tokens == NeighbourTokensOf(line)
                IN  IsSome(PyInt(tokens[2])) /\ IsSome(PyInt(tokens[3]))
              good == SelectSeq(NeighbourLocal(arg), IntPair)
          IN  /\ Len(ret.value) = Len(good)
              /\ \A k \in 1..Len(good) :
                   LET parts == NeighbourTokensOf(good[k])
                       cell == ret.value[k]
                   IN  /\ cell.earfcn = PyInt(parts[2]).some
                       /\ cell.pci = PyInt(parts[3]).some
                       /\ IsNone(PyInt(parts[4])) => cell.rsrq = 0
                       /\ IsNone(PyInt(parts[5])) => cell.rsrp = 0
                       /\ IsNone(PyInt(parts[6])) => cell.rssi = 0
  /\ op = "parse_qcainfo" =>
       /\ ~IsRaise(ret)
       /\ LET kept == QcaKept(arg)
          IN  /\ Len(ret.value) = Len(kept)
              /\ \A k \in 1..Len(kept) :
                   LET parts == kept[k]
                       c == ret.value[k]
                   IN  /\ IsNone(PyInt(parts[2])) => c.earfcn = 0
                       /\ IsNone(PyInt(parts[3])) => c.bandwidth_raw = 0
                       /\ (Len(parts) >= 10 /\ parts[1] = "PCC") =>
                            /\ IsNone(PyInt(parts[6])) => c.pci = 0
                            /\ IsNone(PyInt(parts[7])) => c.rsrp = None
                            /\ IsNone(PyInt(parts[8])) => c.rsrq = None
                            /\ IsNone(PyFloat(parts[10])) => c.sinr = None

\* C21 witness: of two neighbour-cell lines the first, whose PCI is 24x,
\* gave no record and the second was decoded.
C21_Witness ==
  /\ op = "parse_qeng_neighbourcell"
  /\ ~IsRaise(ret)
  /\ LET local == NeighbourLocal(arg)
     IN  /\ Len(local) = 2
         /\ NeighbourTokensOf(local[1])[3] = "24x"
         /\ IsSome(PyInt(NeighbourTokensOf(local[2])[3]))
  /\ Len(ret.value) = 1
  /\ ret.value[1].pci \in {240, 280}

\* C21 witness, carrier aggregation: a PCC line whose channel number is x
\* gave a record with channel number 0.
C21_WitnessQca ==
  /\ op = "parse_qcainfo"
  /\ ~IsRaise(ret)
  /\ LET kept == QcaKept(arg)
     IN  Len(kept) = 1 /\ kept[1][1] = "PCC" /\ kept[1][2] = "x"
  /\ Len(ret.value) = 1
  /\ ret.value[1].earfcn = 0

\* The line of the given prefix and tokens with token p (counted from 1)
\* replaced by "0".
ZeroTwin(prefix, parts, p) == prefix \o Join([parts EXCEPT ![p] = "0"], ",")

\* Tokens of an LTE serving-cell line that are recorded as 0 when missing:
\* cell identity, the two bandwidth codes, tracking-area code, RSRP, RSRQ,
\* RSSI and SINR; and those recorded as absent: CQI and transmit power.
LteZeroFields == {5, 9, 10, 11, 12, 13, 14, 15}

LteOptionalFields == {16, 17}

\* Tokens of a carrier-component line recorded as 0 when missing (channel
\* number, bandwidth, PCI) and those recorded as absent (signal and uplink
\* values), by layout.
QcaZeroFields(parts) ==
  {2, 3} \cup (CASE QcaLayout(parts) = "scc5" -> {5}
                 [] QcaLayout(parts) = "bare" -> {}
                 [] OTHER -> {6})

QcaOptionalFields(parts) ==
  CASE QcaLayout(parts) = "pcc" -> {7, 8, 10}
    [] QcaLayout(parts) = "scc9" -> {7, 8, 9}
    [] QcaLayout(parts) = "scc12" -> {7, 8, 9, 10, 11, 12}
    [] QcaLayout(parts) = "scc13" -> {7, 8, 10, 11, 12, 13}
    [] OTHER -> {}

HexTwin(parts, p) == "+QENG: " \o Join([parts EXCEPT ![p] = "1A"], ",")

\* C23: an LTE serving-cell line that is valid but for a cell identity
\* (token 4) or tracking-area code (token 10) that is not hexadecimal gives
\* an LTE record; the field is 0 and every other field is as in the record
\* of the same line with the hexadecimal number 1A in its place.  A
\* hexadecimal token gives its base-16 value.
C23_BadHexIsZero ==
  op = "parse_qeng_servingcell" =>
    /\ ~IsRaise(ret)
    /\ LET kept == QengParts(arg)
       IN  (Len(kept) = 1 /\ ValidLteLine(kept[1])) =>
             /\ IsSome(ret.value[1])
             /\ LET parts == kept[1]
                    cell == ret.value[1].some
                    twinId == parse_qeng_servingcell(HexTwin(parts, 5)).value[1]
                    twinTac == parse_qeng_servingcell(HexTwin(parts, 11)).value[1]
                IN  /\ IsNone(PyIntHex(parts[5])) =>
                         /\ cell.cell_id = 0
                         /\ twinId = Some([cell EXCEPT !.cell_id = 26])
                    /\ IsNone(PyIntHex(parts[11])) =>
                         /\ cell.tac = 0
                         /\ twinTac = Some([cell EXCEPT !.tac = 26])
                    /\ IsSome(PyIntHex(parts[5])) =>
                         cell.cell_id = PyIntHex(parts[5]).some
                    /\ IsSome(PyIntHex(parts[11])) =>
                         cell.tac = PyIntHex(parts[11]).some

\* C23 witness: a line whose cell identity is x gave a record with cell
\* identity 0 and the tracking-area code BE3 of the line.
C23_Witness ==
  /\ op = "parse_qeng_servingcell"
  /\ LET kept == QengParts(arg)
     IN  Len(kept) = 1 /\ ValidLteLine(kept[1]) /\ kept[1][5] = "x"
  /\ IsSome(ret.value[1])
  /\ ret.value[1].some.cell_id = 0
  /\ ret.value[1].some.tac = 3043
  /\ ret.value[1].some.pci = 280

-----------------------------------------------------------------------------
(* Monotonicity of the alert step functions (under SpecThresholds)         *)

\* C24 as stated: the alert intensity never decreases as the SINR grows,
\* decimal values included, and is always in 0..6: no SINR below the one of
\* the call is given more beeps than the call returned, by
\* sinr_to_beep_count and by the monitor script's beep_sequence alike.
C24_Monotonic ==
  /\ op \in OpsBeep => ret \in 0..6
  /\ (op = "sinr_to_beep_count" /\ IsSome(arg)) =>
       \A k \in (0 - MaxSinrTenths)..MaxSinrTenths :
         100 * k <= arg.some => sinr_to_beep_count(Some(100 * k)) <= ret
  /\ (op = "beep_sequence" /\ IsSome(PyFloat(arg))) =>
       \A k \in (0 - MaxSinrTenths)..MaxSinrTenths :
         100 * k <= PyFloat(arg).some => beep_sequence(TenthsText(k)) <= ret

\* The part of C24 that holds: sinr_to_beep_count never decreases as the
\* SINR grows.
C24_LibraryMonotonic ==
  (op = "sinr_to_beep_count" /\ IsSome(arg)) =>
    /\ ret \in 0..6
    /\ \A k \in (0 - MaxSinrTenths)..MaxSinrTenths :
         100 * k <= arg.some => sinr_to_beep_count(Some(100 * k)) <= ret

-----------------------------------------------------------------------------
(* More properties of the decoders (under SpecParser)                      *)

\* A component without PCI, state, signal and uplink values.
BareComponent(c) ==
  /\ c.pci = 0
  /\ c.state = None
  /\ c.rsrp = None /\ c.rsrq = None /\ c.sinr = None
  /\ c.ul_configured = None /\ c.ul_band = None /\ c.ul_earfcn = None

\* C26: parse_qcainfo returns one record, in input order, for every line
\* that starts with +QCAINFO: and has 5 tokens or more, and none for any
\* other line.  The record of an SCC line of 6, 7, 8, 10 or 11 tokens and
\* of a PCC line of 5 to 9 tokens has PCI 0 and no state, signal or uplink
\* value; a line whose first token is neither PCC nor SCC is decoded with
\* the SCC layouts.
C26_OneRecordPerLine ==
  op = "parse_qcainfo" =>
    /\ ~IsRaise(ret)
    /\ LET kept == QcaKept(arg)
       IN
       /\ Len(ret.value) = Len(kept)
       /\ \A k \in 1..Len(kept) :
            LET parts == kept[k]
                n == Len(parts)
                c == ret.value[k]
            IN  /\ c.component_type = parts[1]
                /\ c.earfcn = OrElse(parse_int(parts[2]), 0)
                /\ c.bandwidth_raw = OrElse(parse_int(parts[3]), 0)
                /\ c.band_name = parts[4]
                /\ (parts[1] = "PCC" /\ n \in 5..9) => BareComponent(c)
                /\ (parts[1] # "PCC" /\ n \in {6, 7, 8, 10, 11}) => BareComponent(c)
                /\ (parts[1] \notin {"PCC", "SCC"}) =>
                     /\ n = 5 => c.pci = OrElse(parse_int(parts[5]), 0)
                     /\ n \in {9, 12} =>
                          /\ c.state = Some(NameIn(SecondaryNames, parts[5]))
                          /\ c.ul_earfcn = parse_int(parts[9])
                     /\ n >= 13 =>
                          /\ c.state = Some(NameIn(SecondaryNames, parts[5]))
                          /\ c.rsrp = parse_int(parts[7])
                          /\ c.ul_earfcn = parse_int(parts[13])

\* C26 witness: an SCC line of 7 tokens gave a record with PCI 0 and no
\* state, signal or uplink value.
C26_Witness ==
  /\ op = "parse_qcainfo"
  /\ ~IsRaise(ret)
  /\ LET kept == QcaKept(arg)
     IN  Len(kept) = 1 /\ Len(kept[1]) = 7 /\ kept[1][1] = "SCC"
  /\ Len(ret.value) = 1
  /\ BareComponent(ret.value[1])
  /\ ret.value[1].earfcn = 1350

\* C26 witness, other type: a 13-token line whose first token is x was
\* decoded with the SCC layout.
C26_WitnessOtherType ==
  /\ op = "parse_qcainfo"
  /\ ~IsRaise(ret)
  /\ LET kept == QcaKept(arg)
     IN  Len(kept) = 1 /\ Len(kept[1]) = 13 /\ kept[1][1] = "x"
  /\ Len(ret.value) = 1
  /\ ret.value[1].state = Some("Active")
  /\ ret.value[1].ul_earfcn = Some(3100)

\* The index of the last token list of kept that satisfies Valid, 0 if
\* none does.
LastValid(kept, Valid(_)) ==
  LET good == { i \in 1..Len(kept) : Valid(kept[i]) }
  IN  IF good = {} THEN 0 ELSE CHOOSE i \in good : \A j \in good : j <= i

\* The pair of records of the response that consists of the one line of
\* these tokens.
AloneRecords(parts) ==
  parse_qeng_servingcell("+QENG: " \o Join(parts, ",")).value

\* C27: of several LTE lines in a serving-cell response the LTE record is
\* the one of the last valid LTE line, and of several NR5G-NSA lines the NR
\* record is the one of the last valid NR5G-NSA line; a malformed line that
\* follows a valid one neither clears nor alters the record.
C27_LastValidLine ==
  op = "parse_qeng_servingcell" =>
    /\ ~IsRaise(ret)
    /\ LET kept == QengParts(arg)
           lte == LastValid(kept, ValidLteLine)
           nr == LastValid(kept, ValidNrLine)
       IN  /\ ret.value[1] = IF lte = 0 THEN None ELSE AloneRecords(kept[lte])[1]
           /\ lte # 0 => /\ IsSome(ret.value[1])
                         /\ ret.value[1].some.pci = PyInt(kept[lte][6]).some
           /\ ret.value[2] = IF nr = 0 THEN None ELSE AloneRecords(kept[nr])[2]
           /\ nr # 0 => /\ IsSome(ret.value[2])
                        /\ ret.value[2].some.pci = PyInt(kept[nr][4]).some

\* C27 witness: three LTE lines, valid with PCI 280, valid with PCI 281 and
\* then malformed, gave the record of the second.
C27_Witness ==
  /\ op = "parse_qeng_servingcell"
  /\ ~IsRaise(ret)
  /\ LET kept == QengParts(arg)
     IN  /\ Len(kept) = 3
         /\ ValidLteLine(kept[1]) /\ kept[1][6] = "280"
         /\ ValidLteLine(kept[2]) /\ kept[2][6] = "281"
         /\ kept[3][1] = "LTE" /\ ~ValidLteLine(kept[3])
  /\ IsSome(ret.value[1])
  /\ ret.value[1].some.pci = 281

-----------------------------------------------------------------------------
(* 5g-monitor.py: the poll loop of main()                                  *)

\* [p.strip().replace('"', '') for p in line.split(',')]
clean_split(line) ==
  LET ps == Split(line, ",")
  IN  [ i \in 1..Len(ps) |-> Replace(Strip(ps[i]), "\"", "") ]

\* A local that holds the token v read from the line src; v is None for the
\* Python None.
Bound(v, src) == [bound |-> TRUE, v |-> v, src |-> src]

\* `not x` for a local that holds None or a string.
Falsy(x) == x.v = None \/ x.v = Some("")

\* cache = defaultdict(dict) at the top of the loop, and a start of cycle
\* that keeps the cache, which is not the code's.
KeepCache(c) == c

StartCache(c) == EmptyCache

\* The LTE branch of the serving-cell section: the try block assigns pci,
\* rsrp, rsrq and sinr from parts[5], [11], [12] and [14] in that order and
\* stops at the first index the line does not have; `except Exception`
\* ends the branch.  len(parts) > 10 holds.
MonitorLte(l, parts, src) ==
  LET n == Len(parts)
      l1 == [l EXCEPT !.pci = Bound(Some(parts[6]), src)]
      l2 == IF n > 11 THEN [l1 EXCEPT !.rsrp = Bound(Some(parts[12]), src)] ELSE l1
      l3 == IF n > 12 THEN [l2 EXCEPT !.rsrq = Bound(Some(parts[13]), src)] ELSE l2
      l4 == IF n > 14 THEN [l3 EXCEPT !.sinr = Bound(Some(parts[15]), src)] ELSE l3
  IN  l4

\* The NR5G-NSA branch: pci, rsrp, sinr and rsrq are assigned from parts[3],
\* [4], [5] and [6]; bw_idx = parts[9] raises IndexError on a line of 9
\* tokens, before the cache and the beep count are written.
MonitorNr(s, parts, src) ==
  LET l == [s.loc EXCEPT !.pci = Bound(Some(parts[4]), src),
                         !.rsrp = Bound(Some(parts[5]), src),
                         !.sinr = Bound(Some(parts[6]), src),
                         !.rsrq = Bound(Some(parts[7]), src)]
      entry == [rsrp |-> l.rsrp, sinr |-> l.sinr]
  IN  IF Len(parts) < 10 THEN [s EXCEPT !.loc = l]
      ELSE [ loc |-> l,
             cache |-> [ k \in DOMAIN s.cache \cup {parts[4]} |->
                           IF k = parts[4] THEN entry ELSE s.cache[k] ],
             beeps |-> [n |-> beep_sequence(parts[6]), cycle |-> src.cycle] ]

\* One line of the serving-cell response.
MonitorQengLine(s, line, src) ==
  LET parts == clean_split(line)
      tech == Replace(parts[1], "+QENG: ", "")
      s1 == IF Len(parts) > 10 /\ tech = "LTE"
            THEN [s EXCEPT !.loc = MonitorLte(s.loc, parts, src)]
            ELSE s
  IN  IF Len(parts) > 8 /\ Contains(tech, "NR5G-NSA")
      THEN MonitorNr(s1, parts, src)
      ELSE s1

RECURSIVE MonitorQeng(_, _, _, _)
MonitorQeng(s, ls, c, i) ==
  IF ls = <<>> THEN s
  ELSE MonitorQeng(MonitorQengLine(s, Head(ls),
                                   [cycle |-> c, sect |-> "qeng", idx |-> i,
                                    line |-> Head(ls)]),
                   Tail(ls), c, i + 1)

\* The assignments of one +QCAINFO line, or the exception that ends the
\* program: parts[0..3] are read first; a PCC line reads parts[4..9]; any
\* other line is told apart by its number of tokens, and a number other
\* than 13, 12, 9 and 5 assigns nothing.
MonitorQcaAssign(l, parts, src) ==
  LET n == Len(parts)
      B(i) == Bound(Some(parts[i + 1]), src)
      Absent == Bound(None, src)
  IN  IF n < 4 THEN Raise("IndexError")
      ELSE IF parts[1] = "PCC"
      THEN IF n < 10 THEN Raise("IndexError")
           ELSE Return([l EXCEPT !.state = Bound(Some(pcell_state(parts[5])), src),
                                 !.pci = B(5), !.rsrp = B(6), !.rsrq = B(7),
                                 !.sinr = B(9)])
      ELSE IF n = 13
      THEN Return([l EXCEPT !.state = Bound(Some(scell_state(parts[5])), src),
                            !.pci = B(5), !.rsrp = B(6), !.rsrq = B(7),
                            !.sinr = B(9)])
      ELSE IF n = 12
      THEN Return([l EXCEPT !.state = Bound(Some(scell_state(parts[5])), src),
                            !.pci = B(5), !.rsrp = B(9), !.rsrq = B(10),
                            !.sinr = B(11)])
      ELSE IF n = 9
      THEN Return([l EXCEPT !.state = Bound(Some(scell_state(parts[5])), src),
                            !.pci = B(5), !.rsrp = Absent, !.rsrq = Absent,
                            !.sinr = Absent])
      ELSE IF n = 5
      THEN Return([l EXCEPT !.state = Bound(Some("N/A"), src),
                            !.pci = B(4), !.rsrp = Absent, !.rsrq = Absent,
                            !.sinr = Absent])
      ELSE Return(l)

\* not x and cache.get(pci) and 'x' in cache[pci]
Borrows(x, pci, c) == Falsy(x) /\ pci.v # None /\ pci.v.some \in DOMAIN c

\* if not x and cache.get(pci) and 'x' in cache[pci]: x = cache[pci]['x']
Borrow(x, pci, c, field) ==
  IF Borrows(x, pci, c) THEN c[pci.v.some][field] ELSE x

\* The rest of the pass over a +QCAINFO line: the reads of rsrp, pci, sinr
\* and state raise UnboundLocalError for a local no line has assigned, and
\* the format specs {sinr:<3} and {rsrp:<4} raise TypeError for None.
MonitorQcaShow(l, parts, c, src) ==
  IF ~l.rsrp.bound \/ ~l.pci.bound \/ ~l.sinr.bound \/ ~l.state.bound
  THEN Raise("UnboundLocalError")
  ELSE LET rsrp == Borrow(l.rsrp, l.pci, c, "rsrp")
           sinr == Borrow(l.sinr, l.pci, c, "sinr")
           after == [l EXCEPT !.rsrp = rsrp, !.sinr = sinr]
       IN  IF sinr.v = None \/ rsrp.v = None THEN Raise("TypeError")
           ELSE Return([ loc |-> after,
                         row |-> [ src |-> src,
                                   c_type |-> parts[1],
                                   band_name |-> parts[4],
                                   own |-> [rsrp |-> l.rsrp, sinr |-> l.sinr],
                                   borrowed |->
                                     [rsrp |-> Borrows(l.rsrp, l.pci, c),
                                      sinr |-> Borrows(l.sinr, l.pci, c)],
                                   pci |-> after.pci,
                                   sinr |-> after.sinr,
                                   rsrp |-> after.rsrp,
                                   rsrq |-> after.rsrq,
                                   state |-> after.state ] ])

\* Poll cycles main() runs through.
MaxCycles == 2

\* What run_at returns: None when the command fails, else the output
\* without carriage returns, stripped.
QspnRaws == { None, Some("+QSPN: \"I TIM\",\"TIM\",\"\",0,\"22201\"\n\nOK") }

MonLte ==
  "+QENG: \"LTE\",\"FDD\",222,01,4940206,427,1350,3,5,5,BFF,-94,-15,-58,9,5,100,-"

QengRaws ==
  { None,
    Some("+QENG: \"servingcell\",\"NOCONN\"\n" \o MonLte
         \o "\n+QENG: \"NR5G-NSA\",222,01,920,-96,18,-10,648768,78,10,1\n\nOK"),
    Some("+QENG: \"servingcell\",\"NOCONN\"\n" \o MonLte \o "\n\nOK"),
    Some("+QENG: \"NR5G-NSA\",222,01,921,-101,16,-11,648768,78,10,1\n\nOK"),
    Some("+QENG: \"NR5G-NSA\",222,01,920,-99,17,-12,648768,78"),
    Some("+QENG: \"LTE\",\"FDD\",222,01,4940206,427,1350,3,5,5,BFF,-94") }

CaPcc == "+QCAINFO: \"PCC\",1350,100,\"LTE BAND 3\",1,427,-94,-15,-58,-3"

CaScc13 == "+QCAINFO: \"SCC\",275,75,\"LTE BAND 1\",1,406,-104,-20,-74,-10,0,-,-"

CaScc12 == "+QCAINFO: \"SCC\",275,75,\"LTE BAND 1\",1,406,0,-,-,-104,-20,-10"

CaScc9 == "+QCAINFO: \"SCC\",275,75,\"LTE BAND 1\",2,406,0,-,-"

CaScc7 == "+QCAINFO: \"SCC\",275,75,\"LTE BAND 1\",2,406,0"

CaNr5 == "+QCAINFO: \"SCC\",648768,10,\"NR5G BAND 78\",920"

\* A PCC line on the PCI of the NR cell whose RSRP and SINR are empty.
CaPccEmpty == "+QCAINFO: \"PCC\",648768,10,\"NR5G BAND 78\",1,920,,-15,-58,"

\* Carrier-aggregation responses: the usual three lines, lines of every
\* layout, lines of other token counts alone and after another line, and
\* lines too short to read.
QcaRaws ==
  { None, Some("") }
  \cup { Some(Join(ls, "\n")) :
           ls \in { <<CaPcc, CaScc13, CaNr5>>,
                    <<CaPcc, CaScc7>>,
                    <<CaScc7>>,
                    <<CaNr5>>,
                    <<CaNr5, CaScc7>>,
                    <<CaPccEmpty>>,
                    <<CaScc9>>,
                    <<CaScc13, CaScc12, "", "OK">>,
                    <<"+QCAINFO: x">>,
                    <<"+QCAINFO: \"PCC\",1350,100,\"LTE BAND 3\",1,427">> } }

\* The top of the loop: screen cleared, cache, flags and beeps reset, and
\* the AT+QSPN query, whose result is split without a test for None.
PollStart ==
  /\ pc \in {"idle", "sleep"}
  /\ cycle < MaxCycles
  /\ UNCHANGED <<callVars, serialVars, probeVars>>
  /\ \E qspn_raw \in QspnRaws :
       /\ cycle' = cycle + 1
       /\ cache' = StartCache(cache)
       /\ beeps' = [n |-> 0, cycle |-> cycle + 1]
       /\ shown' = None
       /\ IF qspn_raw = None
          THEN pc' = "crashed" /\ fault' = Some("AttributeError")
          ELSE pc' = "qeng" /\ fault' = fault
       /\ UNCHANGED <<loc, pending, lineno, played>>

\* The serving-cell section: AT+QENG="servingcell" and the loop over its
\* lines.
ServingCell ==
  /\ pc = "qeng"
  /\ UNCHANGED <<callVars, serialVars, probeVars>>
  /\ \E qeng_raw \in QengRaws :
       LET s == [loc |-> loc, cache |-> cache, beeps |-> beeps]
           t == IF qeng_raw = None \/ qeng_raw = Some("") THEN s
                ELSE MonitorQeng(s, SplitLines(qeng_raw.some), cycle, 1)
       IN  /\ loc' = t.loc
           /\ cache' = t.cache
           /\ beeps' = t.beeps
           /\ pc' = "qcainfo"
           /\ UNCHANGED <<cycle, pending, lineno, shown, played, fault>>

\* AT+QCAINFO and the split of its output into lines.
CarrierQuery ==
  /\ pc = "qcainfo"
  /\ UNCHANGED <<callVars, serialVars, probeVars>>
  /\ \E qca_raw \in QcaRaws :
       /\ pending' = IF qca_raw = None \/ qca_raw = Some("") THEN <<>>
                     ELSE SplitLines(qca_raw.some)
       /\ lineno' = 0
       /\ pc' = "carriers"
       /\ UNCHANGED <<cycle, cache, beeps, loc, shown, played, fault>>

\* One pass of the loop over the +QCAINFO lines.
CarrierLine ==
  /\ pc = "carriers"
  /\ pending # <<>>
  /\ UNCHANGED <<callVars, serialVars, probeVars>>
  /\ LET line == Head(pending)
         src == [cycle |-> cycle, sect |-> "qca", idx |-> lineno + 1,
                 line |-> line]
         parts == clean_split(Replace(line, "+QCAINFO: ", ""))
         assigned == MonitorQcaAssign(loc, parts, src)
         row == MonitorQcaShow(assigned.value, parts, cache, src)
     IN  /\ pending' = Tail(pending)
         /\ lineno' = lineno + 1
         /\ IF ~Contains(line, "+QCAINFO:")
            THEN UNCHANGED <<pc, loc, shown, fault>>
            ELSE IF IsRaise(assigned)
            THEN /\ pc' = "crashed" /\ fault' = Some(assigned.raise)
                 /\ UNCHANGED <<loc, shown>>
            ELSE IF IsRaise(row)
            THEN /\ pc' = "crashed" /\ fault' = Some(row.raise)
                 /\ loc' = assigned.value
                 /\ UNCHANGED shown
            ELSE /\ loc' = row.value.loc
                 /\ shown' = Some(row.value.row)
                 /\ UNCHANGED <<pc, fault>>
         /\ UNCHANGED <<cycle, cache, beeps, played>>

\* The end of the cycle: play_beeps(beeps) and time.sleep(5).
PollEnd ==
  /\ pc = "carriers"
  /\ pending = <<>>
  /\ UNCHANGED <<callVars, serialVars, probeVars>>
  /\ played' = Some(beeps)
  /\ pc' = "sleep"
  /\ UNCHANGED <<cycle, cache, beeps, loc, pending, lineno, shown, fault>>

NextMonitor ==
  \/ PollStart
  \/ ServingCell
  \/ CarrierQuery
  \/ CarrierLine
  \/ PollEnd

SpecMonitor == Init /\ [][NextMonitor]_vars


\* The line a cached or borrowed value was read from is an NR5G-NSA line of
\* the serving-cell response of poll cycle c whose PCI token is pci.
FromNrLine(x, pci, c) ==
  /\ x.src.sect = "qeng"
  /\ x.src.cycle = c
  /\ LET parts == clean_split(x.src.line)
     IN  /\ Len(parts) > 8
         /\ Contains(Replace(parts[1], "+QENG: ", ""), "NR5G-NSA")
         /\ parts[4] = pci

\* C25: in every poll cycle the cache holds only values read from an
\* NR5G-NSA serving-cell line of that same cycle, under that line's PCI; a
\* carrier row takes RSRP or SINR from the cache only when the value it holds
\* itself is absent, and the value it takes was read in the row's own cycle
\* from an NR5G-NSA line with the row's PCI; the beep count played at the
\* end of a cycle was set in that cycle.
C25_BorrowSameCycle ==
  /\ pc \in {"qeng", "qcainfo", "carriers", "sleep"} =>
       \A k \in DOMAIN cache : \A f \in {"rsrp", "sinr"} :
         FromNrLine(cache[k][f], k, cycle)
  /\ IsSome(shown) =>
       LET r == shown.some
       IN  \A f \in {"rsrp", "sinr"} :
             r.borrowed[f] =>
               /\ Falsy(r.own[f])
               /\ r.pci.v # None
               /\ FromNrLine(r[f], r.pci.v.some, r.src.cycle)
               /\ r.src.cycle = cycle
  /\ pc \in {"qeng", "qcainfo", "carriers"} => beeps.cycle = cycle
  /\ (pc = "sleep" /\ IsSome(played)) => played.some.cycle = cycle

\* C25 witness: the second poll cycle ended after a carrier row on PCI 920
\* took both RSRP and SINR from the NR5G-NSA line of that cycle, and five
\* beeps were played for its SINR of 18.
C25_Witness ==
  /\ pc = "sleep"
  /\ cycle = 2
  /\ IsSome(shown)
  /\ shown.some.borrowed.rsrp /\ shown.some.borrowed.sinr
  /\ shown.some.pci.v = Some("920")
  /\ shown.some.rsrp.v = Some("-96")
  /\ shown.some.sinr.v = Some("18")
  /\ shown.some.rsrp.src.cycle = 2
  /\ IsSome(played) /\ played.some.n = 5

\* C28: the state, PCI, RSRP, RSRQ and SINR of a carrier row were read from
\* the row's own +QCAINFO line, except an RSRP or SINR taken from the cache.
C28_ShownFromOwnLine ==
  IsSome(shown) =>
    LET r == shown.some
    IN  /\ \A f \in {"state", "pci", "rsrq"} : r[f].src = r.src
        /\ \A f \in {"rsrp", "sinr"} : r.borrowed[f] \/ r[f].src = r.src

-----------------------------------------------------------------------------
(* quectel/modem.py: SerialBackend.send_command (and the legacy            *)
(* Modem.send_raw, which has the same loop)                                *)

\* The deadline, in sleeps of the polling loop, and the most lines the
\* modem sends during one call.
TimeoutTicks == 2

MaxArrivals == 3

\* Lines as the port delivers them: a blank line, a line of the answer and
\* the two final result codes.
SerialLines == { "\r\n", "RM520N\r\n", "OK\r\n", "ERROR\r\n" }

\* line in ("OK", "ERROR"), and a test that knows OK only, which is not the
\* code's.
IsTerminatorOkOnly(line) == line = "OK"

IsTerminator(line) == line \in {"OK", "ERROR"}

\* _ensure_connected() and reset_input_buffer(): what the buffer held is
\* discarded.
SendReset ==
  /\ spc = "idle"
  /\ spc' = "write"
  /\ inbuf' = <<>>
  /\ nread' = 0
  /\ UNCHANGED <<response_lines, clock, end_time, reply, arrived>>
  /\ UNCHANGED <<callVars, monitorVars, probeVars>>

\* write(command + CR), response_lines = [], end_time = time.time() + timeout
SendWrite ==
  /\ spc = "write"
  /\ spc' = "test"
  /\ response_lines' = <<>>
  /\ end_time' = clock + TimeoutTicks
  /\ UNCHANGED <<inbuf, clock, reply, arrived, nread>>
  /\ UNCHANGED <<callVars, monitorVars, probeVars>>

\* while time.time() < end_time; after the loop, return "\n".join(...)
LoopTest ==
  /\ spc = "test"
  /\ IF clock < end_time
     THEN spc' = "body" /\ reply' = reply
     ELSE spc' = "returned" /\ reply' = Some(Join(response_lines, "\n"))
  /\ UNCHANGED <<inbuf, response_lines, clock, end_time, arrived, nread>>
  /\ UNCHANGED <<callVars, monitorVars, probeVars>>

\* in_waiting is not zero: readline(), strip(), append when not empty, and
\* break on a final result code.
LoopRead ==
  /\ spc = "body"
  /\ inbuf # <<>>
  /\ LET line == Strip(Head(inbuf))
         collected == IF line # "" THEN Append(response_lines, line)
                      ELSE response_lines
     IN  /\ inbuf' = Tail(inbuf)
         /\ nread' = nread + 1
         /\ response_lines' = collected
         /\ IF line # "" /\ IsTerminator(line)
            THEN spc' = "returned" /\ reply' = Some(Join(collected, "\n"))
            ELSE spc' = "test" /\ reply' = reply
  /\ UNCHANGED <<clock, end_time, arrived>>
  /\ UNCHANGED <<callVars, monitorVars, probeVars>>

\* in_waiting is zero: time.sleep(0.01)
LoopSleep ==
  /\ spc = "body"
  /\ inbuf = <<>>
  /\ clock' = clock + 1
  /\ spc' = "test"
  /\ UNCHANGED <<inbuf, response_lines, end_time, reply, arrived, nread>>
  /\ UNCHANGED <<callVars, monitorVars, probeVars>>

\* The modem sends a line; it is in the buffer from now on.  The line is
\* recorded with the time, whether the buffer had been reset and whether
\* the command had been written.
Arrive ==
  /\ spc # "returned"
  /\ Len(arrived) < MaxArrivals
  /\ \E l \in SerialLines :
       /\ inbuf' = Append(inbuf, l)
       /\ arrived' = Append(arrived, [ line |-> l, at |-> clock,
                                       kept |-> spc # "idle",
                                       written |-> spc \notin {"idle", "write"} ])
  /\ UNCHANGED <<spc, response_lines, clock, end_time, reply, nread>>
  /\ UNCHANGED <<callVars, monitorVars, probeVars>>

\* Time passes between two steps of the loop.
Tick ==
  /\ spc \in {"test", "body"}
  /\ clock <= end_time
  /\ clock' = clock + 1
  /\ UNCHANGED <<spc, inbuf, response_lines, end_time, reply, arrived, nread>>
  /\ UNCHANGED <<callVars, monitorVars, probeVars>>

NextSerial ==
  \/ SendReset
  \/ SendWrite
  \/ LoopTest
  \/ LoopRead
  \/ LoopSleep
  \/ Arrive
  \/ Tick

SpecSerial == Init /\ [][NextSerial]_vars

\* The loop is scheduled: every step of send_command that can be taken is
\* taken.
SpecSerialFair ==
  /\ SpecSerial
  /\ WF_vars(SendReset) /\ WF_vars(SendWrite) /\ WF_vars(LoopTest)
  /\ WF_vars(LoopRead) /\ WF_vars(LoopSleep)

\* The stripped lines of a sequence of arrivals, without the empty ones.
Stripped(as) ==
  SelectSeq([ i \in 1..Len(as) |-> Strip(as[i].line) ], LAMBDA l : l # "")

\* The arrivals the buffer held after the reset, and those after the write.
KeptArrivals == SelectSeq(arrived, LAMBDA a : a.kept)

WrittenArrivals == SelectSeq(arrived, LAMBDA a : a.written)

\* C29 as stated: the result is the non-empty lines that arrived after the
\* command was written, up to and including the first OK or ERROR that
\* arrived before the deadline; without such a line the call returns at or
\* after the deadline with lines that arrived after the write, in order.
C29_AsStated ==
  spc = "returned" =>
    LET w == SelectSeq(WrittenArrivals, LAMBDA a : Strip(a.line) # "")
        final == { i \in 1..Len(w) :
                     Strip(w[i].line) \in {"OK", "ERROR"} /\ w[i].at < end_time }
    IN  IF final # {}
        THEN LET i == CHOOSE j \in final : \A k \in final : j <= k
             IN  reply = Some(Join(Stripped(SubSeq(w, 1, i)), "\n"))
        ELSE /\ clock >= end_time
             /\ \E n \in 0..Len(w) :
                  reply = Some(Join(Stripped(SubSeq(w, 1, n)), "\n"))

\* C29: the lines collected are the non-empty stripped lines read from the
\* buffer since it was reset, in arrival order; while the loop runs none of
\* them is OK or ERROR; the call returns them joined by newlines, either
\* right after reading an OK or ERROR line, which is then the last line of
\* the result, or with no such line read and the deadline reached.
C29_Amended ==
  LET read == SubSeq(KeptArrivals, 1, nread)
      got == Stripped(read)
      Final(l) == l \in {"OK", "ERROR"}
  IN  spc \in {"test", "body", "returned"} =>
        /\ nread <= Len(KeptArrivals)
        /\ response_lines = got
        /\ \A i \in 1..Len(got) : Final(got[i]) => i = Len(got)
        /\ spc \in {"test", "body"} => \A i \in 1..Len(got) : ~Final(got[i])
        /\ spc = "returned" =>
             /\ reply = Some(Join(got, "\n"))
             /\ IF got # <<>> /\ Final(got[Len(got)])
                THEN Strip(read[nread].line) = got[Len(got)]
                ELSE clock >= end_time

\* C29 witness: a blank line, an answer line and OK arrived after the
\* write, and the call returned the answer line and OK before the deadline.
C29_Witness ==
  /\ spc = "returned"
  /\ Len(arrived) = 3
  /\ \A i \in 1..3 : arrived[i].written
  /\ arrived[1].line = "\r\n"
  /\ reply = Some("RM520N\nOK")
  /\ clock < end_time

\* C29 witness of the deadline: no final result code was read and the call
\* returned the two lines read once the deadline had passed.
C29_WitnessDeadline ==
  /\ spc = "returned"
  /\ reply = Some("RM520N\nRM520N")
  /\ clock >= end_time

\* Under a scheduled loop every call returns.
C29_Returns == <>(spc = "returned")

-----------------------------------------------------------------------------
(* quectel/modem.py: auto_detect_port                                      *)

\* The most /dev/ttyUSB* devices glob finds; candidates are numbered in
\* sorted order.
MaxPorts == 3

\* What a device answers to ATI.
ProbeResponses == { "Quectel\nRM520N-GL\nRevision: RM520NGLAAR01A07M4G\nOK",
                    "ERROR", "" }

\* candidates = sorted(glob.glob("/dev/ttyUSB*"))
DetectStart ==
  /\ ppc = "idle"
  /\ \E n \in 0..MaxPorts : ncand' = n
  /\ ppc' = "next"
  /\ UNCHANGED <<device, ports, backend, probed, found, failed>>
  /\ UNCHANGED <<callVars, monitorVars, serialVars>>

\* for device in candidates: backend = SerialBackend(device, timeout=1.0),
\* which opens nothing yet; after the last candidate, return None.
ProbeNext ==
  /\ ppc = "next"
  /\ IF device < ncand
     THEN /\ device' = device + 1
          /\ backend' = device + 1
          /\ ppc' = "connect"
          /\ found' = found
     ELSE /\ ppc' = "done"
          /\ found' = None
          /\ backend' = 0
          /\ device' = device
  /\ UNCHANGED <<ncand, ports, probed, failed>>
  /\ UNCHANGED <<callVars, monitorVars, serialVars>>

\* send_command: _ensure_connected() opens the port, or serial.Serial
\* raises and `except Exception: continue` goes to the next candidate.
ProbeConnect ==
  /\ ppc = "connect"
  /\ \/ ports' = ports \cup {device} /\ ppc' = "command"
     \/ ports' = ports /\ ppc' = "next"
  /\ UNCHANGED <<ncand, device, backend, probed, found, failed>>
  /\ UNCHANGED <<callVars, monitorVars, serialVars>>

\* send_command with the port open: it returns the response, or
\* reset_input_buffer, write or readline raises and `except Exception:
\* continue` goes to the next candidate without backend.close().
ProbeCommand ==
  /\ ppc = "command"
  /\ \/ \E r \in ProbeResponses :
          /\ probed' = Some(r)
          /\ ppc' = "close"
          /\ failed' = failed
     \/ /\ ppc' = "next"
        /\ failed' = failed \cup {device}
        /\ probed' = probed
  /\ UNCHANGED <<ncand, device, ports, backend, found>>
  /\ UNCHANGED <<callVars, monitorVars, serialVars>>

\* backend.close(), then `if "Quectel" in response: return device`
ProbeClose ==
  /\ ppc = "close"
  /\ ports' = ports \ {device}
  /\ IF Contains(probed.some, "Quectel")
     THEN ppc' = "done" /\ found' = Some(device) /\ backend' = 0
     ELSE ppc' = "next" /\ found' = found /\ backend' = backend
  /\ UNCHANGED <<ncand, device, probed, failed>>
  /\ UNCHANGED <<callVars, monitorVars, serialVars>>

\* A backend no local refers to any more is collected, at some moment or
\* never, and collecting it closes its port.
Finalize ==
  /\ ppc # "idle"
  /\ \E d \in ports :
       /\ d # backend
       /\ ports' = ports \ {d}
  /\ UNCHANGED <<ppc, ncand, device, backend, probed, found, failed>>
  /\ UNCHANGED <<callVars, monitorVars, serialVars>>

NextProbe ==
  \/ DetectStart
  \/ ProbeNext
  \/ ProbeConnect
  \/ ProbeCommand
  \/ ProbeClose
  \/ Finalize

SpecProbe == Init /\ [][NextProbe]_vars

\* C30: at most one probe port is open at any time; while a candidate's
\* port is open no earlier candidate's port is, and none is open once the
\* function has returned.
C30_ClosedBeforeNext ==
  /\ Cardinality(ports) <= 1
  /\ ppc \in {"command", "close"} => ports \subseteq {device}
  /\ ppc = "done" => ports = {}

\* The ports left open are those of candidates whose command raised with
\* the port open; a candidate whose command returned is closed before the
\* next one is taken up and before the function returns.
C30_OpenOnlyAfterRaise ==
  /\ ports \subseteq failed \cup {device}
  /\ ppc \in {"next", "connect", "done"} => ports \subseteq failed
=============================================================================
